---- MODULE Spec2Model ----
(***************************************************************************)
(* Reminder scheduling and drift-correction engine of Reminder-AI.         *)
(*                                                                         *)
(* The model follows src/context/AppContext.tsx (AppProvider: the polling  *)
(* tick, triggerAlert, dismissNotification and the effects that run after  *)
(* a render), src/utils/timeUtils.ts (calendar gate and holiday cache) and *)
(* the reminder handlers of src/components/SettingsPanel.tsx.              *)
(*                                                                         *)
(* Conventions.  Timestamps are milliseconds, as Date.now().  A JavaScript *)
(* null or undefined timestamp is the value Null; the empty main interval  *)
(* value '' is the value Empty.  Strings are TLA+ strings, taken apart     *)
(* with Len and SubSeq the way the code takes them apart with split and    *)
(* trim.  One step of the model is one task of the renderer's event loop   *)
(* (an interval callback, a timeout callback, a user or IPC handler)       *)
(* together with the render and the effects React runs after it.           *)
(***************************************************************************)
EXTENDS Integers, Sequences, FiniteSets, TLC

\* ------------------------------------------------------------------------
\* Values standing for JavaScript null/undefined and for the empty input ''
\* ------------------------------------------------------------------------
Null == -1
Empty == -2

\* ------------------------------------------------------------------------
\* Program constants
\* ------------------------------------------------------------------------
SleepThresholdMs == 1000
ResumeGraceMs == 10000
CustomOverdueSec == 3
MainOverdueSec == 10
MainOverdueAbsSec == 5
RescheduleBufferMs == 1000
StaleAnchorPeriods == 100
MsPerSecond == 1000
SecondsPerMinute == 60
SecondsPerHour == 3600
MinutesPerHour == 60
DismissSlackMs == 1000

\* ------------------------------------------------------------------------
\* Bounds of the model
\* ------------------------------------------------------------------------
\* the wall clock runs from StartClock for at most this many quanta
MaxQuanta == 6
\* at most MaxPerType Interval and MaxPerType OneTime reminders exist at a time
MaxPerType == 1

\* ------------------------------------------------------------------------
\* Arithmetic and string helpers
\* ------------------------------------------------------------------------
\* Math.ceil(a / b) for b > 0 and any integer a
CeilDiv(a, b) == -((-a) \div b)

Max(a, b) == IF a >= b THEN a ELSE b

Abs(a) == IF a < 0 THEN -a ELSE a

\* n.toString().padStart(2, '0')
PadStart2(n) == IF n < 10 THEN "0" \o ToString(n) ELSE ToString(n)

DigitValue(c) ==
    CASE c = "0" -> 0 [] c = "1" -> 1 [] c = "2" -> 2 [] c = "3" -> 3
      [] c = "4" -> 4 [] c = "5" -> 5 [] c = "6" -> 6 [] c = "7" -> 7
      [] c = "8" -> 8 [] c = "9" -> 9

\* Number(s) for a string of decimal digits (Number("") is 0)
RECURSIVE ToNumber(_)
ToNumber(s) ==
    IF Len(s) = 0 THEN 0
    ELSE 10 * ToNumber(SubSeq(s, 1, Len(s) - 1)) + DigitValue(SubSeq(s, Len(s), Len(s)))

\* index of the first ':' of s, or Len(s) + 1 when there is none
RECURSIVE ColonAt(_, _)
ColonAt(s, i) ==
    IF i > Len(s) THEN i
    ELSE IF SubSeq(s, i, i) = ":" THEN i
    ELSE ColonAt(s, i + 1)

\* s.split(':').map(Number), the first two fields
SplitHM(s) ==
    LET c == ColonAt(s, 1)
    IN  <<ToNumber(SubSeq(s, 1, c - 1)), ToNumber(SubSeq(s, c + 1, Len(s)))>>

\* s.trim()
RECURSIVE TrimStart(_)
TrimStart(s) ==
    IF Len(s) > 0 /\ SubSeq(s, 1, 1) = " " THEN TrimStart(SubSeq(s, 2, Len(s))) ELSE s

RECURSIVE TrimEnd(_)
TrimEnd(s) ==
    IF Len(s) > 0 /\ SubSeq(s, Len(s), Len(s)) = " "
    THEN TrimEnd(SubSeq(s, 1, Len(s) - 1)) ELSE s

Trim(s) == TrimEnd(TrimStart(s))

\* ------------------------------------------------------------------------
\* Calendar gate (src/utils/timeUtils.ts)
\* ------------------------------------------------------------------------
\* variant: getMonth() taken for the month number
DateKeyMonthFromZero(d) ==
    ToString(d.year) \o "-" \o PadStart2(d.month) \o "-" \o PadStart2(d.date)

\* the date key isWorkDay builds from new Date(): d.month is getMonth() (0..11)
DateKey(d) ==
    ToString(d.year) \o "-" \o PadStart2(d.month + 1) \o "-" \o PadStart2(d.date)

\* variant: a range whose end equals its start taken for a same-day range
RangeContainsEqualIsSameDay(range, currentTime) ==
    IF Len(range.start) = 0 \/ Len(range.end) = 0 THEN FALSE
    ELSE LET s == SplitHM(range.start)
             e == SplitHM(range.end)
             startTime == s[1] * MinutesPerHour + s[2]
             endTime == e[1] * MinutesPerHour + e[2]
         IN  IF endTime >= startTime
             THEN currentTime >= startTime /\ currentTime < endTime
             ELSE currentTime >= startTime \/ currentTime < endTime

\* one element of ranges.some(...) in isWithinActiveHours
RangeContains(range, currentTime) ==
    IF Len(range.start) = 0 \/ Len(range.end) = 0 THEN FALSE
    ELSE LET s == SplitHM(range.start)
             e == SplitHM(range.end)
             startTime == s[1] * MinutesPerHour + s[2]
             endTime == e[1] * MinutesPerHour + e[2]
         IN  IF endTime > startTime
             THEN currentTime >= startTime /\ currentTime < endTime
             ELSE currentTime >= startTime \/ currentTime < endTime

\* isWithinActiveHours(ranges) evaluated at local time d
IsWithinActiveHours(ranges, d) ==
    IF Len(ranges) = 0 THEN TRUE
    ELSE LET currentTime == d.hours * MinutesPerHour + d.minutes
         IN  \E i \in 1..Len(ranges) : RangeContains(ranges[i], currentTime)

\* the value isWorkDay(mode, skipHolidays, isBigWeek) returns at local date d
\* with the holiday cache cache
IsWorkDayValue(mode, skipHolidays, isBigWeek, d, cache) ==
    IF skipHolidays /\ DateKey(d) \in cache THEN FALSE
    ELSE IF mode = "everyday" THEN TRUE
    ELSE IF mode = "weekend" THEN d.day = 0 \/ d.day = 6
    ELSE IF mode = "big-small"
         THEN IF d.day = 0 THEN FALSE
              ELSE IF d.day = 6 THEN isBigWeek
              ELSE TRUE
    ELSE TRUE

\* ------------------------------------------------------------------------
\* State
\* ------------------------------------------------------------------------
VARIABLES
    clock,                 \* Date.now()
    date,                  \* the local date and time new Date() shows
    settings,              \* AppSettings (the fields the engine reads)
    status,                \* AppStatus of the main reminder
    endTime,               \* main endTime (ms) or Null
    timeLeft,              \* main timeLeft (s)
    totalTime,             \* main totalTime (s)
    customTimerStates,     \* customTimerStatesRef.current: id -> TimerState
    activeAlerts,          \* set of ids
    notificationSnapshots, \* id -> [title, message]
    lastTick,              \* lastTickRef.current
    lastResumeTime,        \* lastResumeTimeRef.current
    pending,               \* setTimeout(..., 0) callbacks of ticks not yet run
    out,                   \* ipcRenderer.send messages of the latest step
    holidaysCache,         \* holidaysCache of timeUtils.ts
    fetchedYears,          \* fetchedYears of timeUtils.ts
    isFetching,            \* isFetching of timeUtils.ts
    fetchJob,              \* position of the outstanding updateHolidays()
    probe,                 \* last values returned by the calendar functions, or
                           \* the locals of the reschedule loop in progress
    toRenderer,            \* 'notification-closed' messages on their way to the renderer
    notificationWindows    \* notificationWindows of the main process: id -> window

vars == <<clock, date, settings, status, endTime, timeLeft, totalTime,
          customTimerStates, activeAlerts, notificationSnapshots, lastTick,
          lastResumeTime, pending, out, holidaysCache, fetchedYears,
          isFetching, fetchJob, probe, toRenderer, notificationWindows>>

engineVars == <<clock, settings, status, endTime, timeLeft, totalTime,
                customTimerStates, activeAlerts, notificationSnapshots,
                lastTick, lastResumeTime, pending>>

holidayVars == <<holidaysCache, fetchedYears, isFetching, fetchJob>>

\* ------------------------------------------------------------------------
\* Settings helpers (AppContext.tsx)
\* ------------------------------------------------------------------------
\* variant: the seconds unit forgotten
UnitMultiplierNoSeconds(unit) ==
    IF unit = "hours" THEN SecondsPerHour ELSE SecondsPerMinute

\* let multiplier = 60; if hours 3600; if seconds 1
UnitMultiplier(unit) ==
    IF unit = "hours" THEN SecondsPerHour
    ELSE IF unit = "seconds" THEN 1
    ELSE SecondsPerMinute

\* calculateTotalSeconds() of the render whose settings are s
CalculateTotalSeconds(s) ==
    IF s.intervalValue = Empty THEN 0
    ELSE s.intervalValue * UnitMultiplier(s.intervalUnit)

\* variant: the empty input not told from a number
HasIntervalUnchecked(s) == s.intervalValue = Empty \/ s.intervalValue > 0

\* hasInterval of triggerAlert and of the tick
HasInterval(s) == s.intervalValue # Empty /\ s.intervalValue > 0

\* hasText of triggerAlert and of the tick
HasText(s) == Len(Trim(s.messagePrefix)) > 0 \/ Len(Trim(s.messageSuffix)) > 0

\* (v || 0) for an optional number
OrZero(v) == IF v = Null THEN 0 ELSE v

\* truthiness of an optional timestamp: neither undefined/null nor 0
Truthy(v) == v # Null /\ v # 0

\* period of an Interval reminder in ms: (r.intervalValue || 0) * multiplier * 1000
TotalMs(r) == OrZero(r.intervalValue) * UnitMultiplier(r.intervalUnit) * MsPerSecond

\* customReminders.find(r => r.id === id): its index, or 0
FindIndex(reminders, id) ==
    IF \E i \in 1..Len(reminders) : reminders[i].id = id
    THEN CHOOSE i \in 1..Len(reminders) :
            /\ reminders[i].id = id
            /\ \A j \in 1..(i - 1) : reminders[j].id # id
    ELSE 0

HasReminder(reminders, id) == FindIndex(reminders, id) # 0

\* customReminders.filter(r => !ids.includes(r.id))
RECURSIVE FilterOut(_, _)
FilterOut(reminders, ids) ==
    IF Len(reminders) = 0 THEN <<>>
    ELSE LET rest == FilterOut(Tail(reminders), ids)
         IN  IF Head(reminders).id \in ids THEN rest ELSE <<Head(reminders)>> \o rest

ReminderIds(reminders) == {reminders[i].id : i \in 1..Len(reminders)}

\* delete next[id] on a Record<string, ...>
DeleteKey(f, id) == [k \in DOMAIN f \ {id} |-> f[k]]

\* { ...f, [id]: v }
PutKey(f, id, v) == [k \in DOMAIN f \cup {id} |-> IF k = id THEN v ELSE f[k]]

\* the React state one handler reads and writes
AppState ==
    [settings |-> settings, status |-> status, endTime |-> endTime,
     timeLeft |-> timeLeft, totalTime |-> totalTime, cts |-> customTimerStates,
     activeAlerts |-> activeAlerts, snapshots |-> notificationSnapshots,
     out |-> <<>>]

\* the calendar gate as the handlers evaluate it: isWork && isActive
GateOpen(s, d, cache) ==
    /\ IsWorkDayValue(s.workMode, s.skipHolidays, s.isBigWeek, d, cache)
    /\ IsWithinActiveHours(s.activeHoursRanges, d)

\* ------------------------------------------------------------------------
\* startTimers / pauseTimers / resumeTimers
\* ------------------------------------------------------------------------
StartTimers(a, now) ==
    LET mainTotal == CalculateTotalSeconds(a.settings)
    IN  [a EXCEPT !.endTime = now + mainTotal * MsPerSecond,
                  !.timeLeft = mainTotal,
                  !.status = "running"]

PauseTimers(a) == [a EXCEPT !.status = "paused", !.endTime = Null]

\* variant of resumeTimers: a full countdown whatever is left
ResumeTimersFresh(a, now) ==
    LET total == CalculateTotalSeconds(a.settings)
    IN  [a EXCEPT !.endTime = now + total * MsPerSecond,
                  !.timeLeft = total,
                  !.status = "running"]

ResumeTimers(a, now) ==
    IF a.timeLeft > 0
    THEN [a EXCEPT !.endTime = now + a.timeLeft * MsPerSecond, !.status = "running"]
    ELSE LET total == CalculateTotalSeconds(a.settings)
         IN  [a EXCEPT !.endTime = now + total * MsPerSecond,
                       !.timeLeft = total,
                       !.status = "running"]

\* ------------------------------------------------------------------------
\* triggerAlert(sourceId); reminders is settings.customReminders of the render
\* the callback was created in
\* ------------------------------------------------------------------------
UnitText(unit) ==
    IF unit = "hours" THEN "hours-text"
    ELSE IF unit = "seconds" THEN "seconds-text"
    ELSE "minutes-text"

MainMessage(s) ==
    s.messagePrefix \o " " \o
    (IF s.intervalValue = Empty THEN "" ELSE ToString(s.intervalValue)) \o " " \o
    UnitText(s.intervalUnit) \o " " \o s.messageSuffix

CustomAlertContent(reminders, sourceId) ==
    LET i == FindIndex(reminders, sourceId)
    IN  IF i # 0
        THEN [type |-> reminders[i].type,
              title |-> IF reminders[i].type = "interval" THEN "interval-title"
                        ELSE "onetime-title",
              message |-> reminders[i].title]
        ELSE [type |-> "interval", title |-> "fallback-title",
              message |-> "fallback-message"]

TriggerAlert(a, sourceId, reminders) ==
    IF sourceId = "main" /\ (~HasInterval(a.settings) \/ ~HasText(a.settings))
    THEN a
    ELSE LET c == IF sourceId = "main"
                  THEN [type |-> "main", title |-> "main-title",
                        message |-> MainMessage(a.settings)]
                  ELSE CustomAlertContent(reminders, sourceId)
             b == IF sourceId = "main"
                  THEN [a EXCEPT !.status = "alert_active", !.endTime = Null]
                  ELSE a
         IN  [b EXCEPT
                !.snapshots = PutKey(b.snapshots, sourceId,
                                     [title |-> c.title, message |-> c.message]),
                !.activeAlerts = b.activeAlerts \cup {sourceId},
                !.out = Append(b.out, [channel |-> "trigger-notification",
                                       id |-> sourceId, title |-> c.title,
                                       message |-> c.message, type |-> c.type])]


\* getAlertDetails(id), id given: the text shown for the alert of id
GetAlertDetails(snapshots, s, id) ==
    IF id \in DOMAIN snapshots THEN snapshots[id]
    ELSE IF id = "main"
         THEN [title |-> "main-title", message |-> MainMessage(s)]
         ELSE LET i == FindIndex(s.customReminders, id)
              IN  IF i # 0
                  THEN [title |-> IF s.customReminders[i].type = "interval"
                                  THEN "interval-title" ELSE "onetime-title",
                        message |-> s.customReminders[i].title]
                  ELSE [title |-> "reminder-title", message |-> "fallback-message"]

\* variant of dismissNotification: the main countdown restarted whatever the
\* calendar gate says
DismissNotificationIgnoresGate(a, closure, id, fromIpc, now, d, cache) ==
    LET i == FindIndex(closure.customReminders, id)
        spent == /\ i # 0
                 /\ closure.customReminders[i].type = "onetime"
                 /\ Truthy(closure.customReminders[i].targetDateTime)
                 /\ closure.customReminders[i].targetDateTime <= now + DismissSlackMs
        a1 == IF spent
              THEN [a EXCEPT !.settings.customReminders =
                                FilterOut(a.settings.customReminders, {id})]
              ELSE a
        a2 == [a1 EXCEPT
                 !.snapshots = DeleteKey(a1.snapshots, id),
                 !.activeAlerts = a1.activeAlerts \ {id},
                 !.out = IF fromIpc THEN a1.out
                         ELSE Append(a1.out, [channel |-> "dismiss-notification",
                                              id |-> id])]
        total == CalculateTotalSeconds(closure)
    IN  IF id # "main" THEN a2
        ELSE [a2 EXCEPT !.totalTime = total, !.status = "running",
                        !.endTime = now + total * MsPerSecond, !.timeLeft = total]

\* ------------------------------------------------------------------------
\* dismissNotification(id, fromIpc); closure is the settings of the render
\* the callback was created in
\* ------------------------------------------------------------------------
DismissNotification(a, closure, id, fromIpc, now, d, cache) ==
    LET i == FindIndex(closure.customReminders, id)
        spent == /\ i # 0
                 /\ closure.customReminders[i].type = "onetime"
                 /\ Truthy(closure.customReminders[i].targetDateTime)
                 /\ closure.customReminders[i].targetDateTime <= now + DismissSlackMs
        a1 == IF spent
              THEN [a EXCEPT !.settings.customReminders =
                                FilterOut(a.settings.customReminders, {id})]
              ELSE a
        a2 == [a1 EXCEPT
                 !.snapshots = DeleteKey(a1.snapshots, id),
                 !.activeAlerts = a1.activeAlerts \ {id},
                 !.out = IF fromIpc THEN a1.out
                         ELSE Append(a1.out, [channel |-> "dismiss-notification",
                                              id |-> id])]
        total == CalculateTotalSeconds(closure)
    IN  IF id # "main" THEN a2
        ELSE IF closure.activeHoursEnabled /\ ~GateOpen(closure, d, cache)
        THEN [a2 EXCEPT !.totalTime = total, !.status = "waiting",
                        !.endTime = Null, !.timeLeft = total]
        ELSE [a2 EXCEPT !.totalTime = total, !.status = "running",
                        !.endTime = now + total * MsPerSecond, !.timeLeft = total]

\* ------------------------------------------------------------------------
\* Effect: sync customTimerStates with settings.customReminders
\* ------------------------------------------------------------------------
\* the TimerState the effect computes for an enabled reminder r
InitialTimerState(r, now) ==
    IF r.type = "onetime" /\ Truthy(r.targetDateTime)
    THEN [timeLeft |-> Max(0, CeilDiv(r.targetDateTime - now, MsPerSecond)),
          endTime |-> r.targetDateTime]
    ELSE IF Truthy(r.nextTriggerTime)
    THEN [timeLeft |-> Max(0, CeilDiv(r.nextTriggerTime - now, MsPerSecond)),
          endTime |-> r.nextTriggerTime]
    ELSE LET total == OrZero(r.intervalValue) * UnitMultiplier(r.intervalUnit)
         IN  [timeLeft |-> total, endTime |-> now + total * MsPerSecond]

\* one iteration of settings.customReminders.forEach in the sync effect
SyncOne(prevReminders, r, states, now) ==
    LET p == FindIndex(prevReminders, r.id)
        isNew == p = 0
        wasDisabled == p # 0 /\ ~prevReminders[p].enabled /\ r.enabled
        configChanged ==
            /\ p # 0
            /\ \/ prevReminders[p].intervalValue # r.intervalValue
               \/ prevReminders[p].intervalUnit # r.intervalUnit
               \/ prevReminders[p].targetDateTime # r.targetDateTime
               \/ prevReminders[p].type # r.type
               \/ prevReminders[p].nextTriggerTime # r.nextTriggerTime
        has == r.id \in DOMAIN states
    IN  IF r.enabled
        THEN IF \/ isNew \/ wasDisabled \/ configChanged \/ ~has
                \/ (/\ r.type = "interval"
                    /\ states[r.id].endTime = Null
                    /\ states[r.id].timeLeft = 0)
             THEN PutKey(states, r.id, InitialTimerState(r, now))
             ELSE states
        ELSE IF has /\ states[r.id].endTime # Null
             THEN PutKey(states, r.id, [timeLeft |-> 0, endTime |-> Null])
             ELSE states

RECURSIVE SyncAll(_, _, _, _, _)
SyncAll(prevReminders, reminders, i, states, now) ==
    IF i > Len(reminders) THEN states
    ELSE SyncAll(prevReminders, reminders, i + 1,
                 SyncOne(prevReminders, reminders[i], states, now), now)

\* variant: the rows of removed reminders left in place
SyncCustomTimerStatesKeepsRows(prevReminders, reminders, states, now) ==
    SyncAll(prevReminders, reminders, 1, states, now)

\* the whole effect: clean up rows of removed reminders, then initialise or
\* update the rows of the current ones
SyncCustomTimerStates(prevReminders, reminders, states, now) ==
    LET kept == [k \in DOMAIN states \cap ReminderIds(reminders) |-> states[k]]
    IN  SyncAll(prevReminders, reminders, 1, kept, now)

\* ------------------------------------------------------------------------
\* The tick: custom reminders
\* ------------------------------------------------------------------------
\* variant: one period added, and no more
AnchorAdvanceOnce(nextTime, now, totalMs) == nextTime + totalMs

\* while (nextTime <= now + 1000) nextTime += totalMs, for totalMs > 0
RECURSIVE AnchorAdvance(_, _, _)
AnchorAdvance(nextTime, now, totalMs) ==
    IF nextTime <= now + RescheduleBufferMs
    THEN AnchorAdvance(nextTime + totalMs, now, totalMs)
    ELSE nextTime

\* variant: the next period counted from the tick, not from the anchor
NextTriggerTimeFromNow(prevEnd, now, totalMs) == now + totalMs

\* the next endTime of a due Interval reminder whose endTime is prevEnd
NextTriggerTime(prevEnd, now, totalMs) ==
    LET start == IF prevEnd < now - totalMs * StaleAnchorPeriods THEN now ELSE prevEnd
    IN  AnchorAdvance(start, now, totalMs)

\* variant: the resume message ignored, the tick-delay check alone trusted
SystemSleptTickDelayOnly(now, lastTickAt, lastResumeAt) ==
    now - lastTickAt > SleepThresholdMs

\* variant: the tick-delay check left out, the resume message alone trusted
SystemSleptResumeOnly(now, lastTickAt, lastResumeAt) ==
    now - lastResumeAt < ResumeGraceMs

\* systemSlept of the tick that runs at now
SystemSlept(now, lastTickAt, lastResumeAt) ==
    LET tickDelaySlept == now - lastTickAt > SleepThresholdMs
        powerMonitorJustResumed == now - lastResumeAt < ResumeGraceMs
    IN  tickDelaySlept \/ powerMonitorJustResumed

\* variant: no deadline taken for overdue
IsOverdueNever(diff) == FALSE

\* isOverdue of the custom loop
IsOverdue(diff) == diff < -CustomOverdueSec

\* one iteration of settings.customReminders.forEach in the tick;
\* acc = [cts, alerts, updates, removes]
TickOne(r, acc, now, systemSlept) ==
    IF ~r.enabled THEN acc
    ELSE IF r.id \notin DOMAIN acc.cts THEN acc
    ELSE IF ~Truthy(acc.cts[r.id].endTime) THEN acc
    ELSE
      LET st == acc.cts[r.id]
          diff == CeilDiv(st.endTime - now, MsPerSecond)
          shouldAlert == ~(systemSlept \/ IsOverdue(diff))
          a1 == IF shouldAlert
                THEN [acc EXCEPT !.alerts = Append(acc.alerts, r.id)]
                ELSE IF r.type = "onetime"
                THEN [acc EXCEPT !.removes = Append(acc.removes, r.id)]
                ELSE acc
          nextTime == NextTriggerTime(st.endTime, now, TotalMs(r))
      IN  IF diff <= 0
          THEN IF r.type = "interval"
               THEN [a1 EXCEPT
                       !.cts = PutKey(a1.cts, r.id,
                                 [timeLeft |-> CeilDiv(nextTime - now, MsPerSecond),
                                  endTime |-> nextTime]),
                       !.updates = Append(a1.updates,
                                          [id |-> r.id, nextTime |-> nextTime])]
               ELSE [a1 EXCEPT
                       !.cts = PutKey(a1.cts, r.id,
                                      [timeLeft |-> 0, endTime |-> Null])]
          ELSE [acc EXCEPT !.cts = PutKey(acc.cts, r.id,
                                          [st EXCEPT !.timeLeft = diff])]

RECURSIVE TickAll(_, _, _, _, _)
TickAll(reminders, i, acc, now, systemSlept) ==
    IF i > Len(reminders) THEN acc
    ELSE TickAll(reminders, i + 1,
                 TickOne(reminders[i], acc, now, systemSlept), now, systemSlept)

\* the custom-reminder pass of the tick
TickCustom(reminders, states, now, systemSlept) ==
    TickAll(reminders, 1,
            [cts |-> states, alerts |-> <<>>, updates |-> <<>>, removes |-> <<>>],
            now, systemSlept)

\* ------------------------------------------------------------------------
\* The tick: main timer
\* ------------------------------------------------------------------------
\* variant: the countdown's endTime kept when the gate closes
GateToWaitingKeepsEndTime(a) ==
    IF a.status # "waiting" /\ a.status # "alert_active"
    THEN [a EXCEPT !.status = "waiting",
                   !.timeLeft = CalculateTotalSeconds(a.settings)]
    ELSE a

\* variant: the custom countdowns stopped with the main one
GateToWaitingStopsCustom(a) ==
    IF a.status # "waiting" /\ a.status # "alert_active"
    THEN [a EXCEPT !.status = "waiting", !.endTime = Null,
                   !.timeLeft = CalculateTotalSeconds(a.settings),
                   !.cts = [k \in DOMAIN a.cts |-> [a.cts[k] EXCEPT !.endTime = Null]]]
    ELSE a

\* the branch taken while the gate is closed and the status may be overridden
GateToWaiting(a) ==
    IF a.status # "waiting" /\ a.status # "alert_active"
    THEN [a EXCEPT !.status = "waiting", !.endTime = Null,
                   !.timeLeft = CalculateTotalSeconds(a.settings)]
    ELSE a

\* the active-hours block of the tick; a holds the values of the render the
\* interval callback was created in
TickGate(a, now, d, cache) ==
    IF ~a.settings.activeHoursEnabled THEN a
    ELSE IF ~IsWorkDayValue(a.settings.workMode, a.settings.skipHolidays,
                            a.settings.isBigWeek, d, cache)
    THEN GateToWaiting(a)
    ELSE IF IsWithinActiveHours(a.settings.activeHoursRanges, d)
    THEN IF a.status # "running" /\ a.status # "alert_active"
         THEN StartTimers(a, now)
         ELSE a
    ELSE GateToWaiting(a)

\* shouldTickMainTimer after the active-hours block
ShouldTickMainTimer(a, d, cache) ==
    /\ a.status = "running"
    /\ a.settings.activeHoursEnabled => GateOpen(a.settings, d, cache)

\* shouldAlertMain for a main countdown that is due
ShouldAlertMain(diff, systemSlept) ==
    LET isHeavilyOverdueMain == diff < -MainOverdueSec
        first == ~(systemSlept \/ isHeavilyOverdueMain)
    IN  IF Abs(diff) > MainOverdueAbsSec /\ ~first THEN FALSE ELSE first

\* variant: the countdown block without the activeAlerts.has('main') check
TickCountdownUnguarded(a, b, now, systemSlept) ==
    LET s == a.settings
        diff == CeilDiv(a.endTime - now, MsPerSecond)
        total == CalculateTotalSeconds(s)
    IN  IF ~HasInterval(s)
        THEN [b EXCEPT !.timeLeft = 0, !.endTime = Null]
        ELSE IF ~HasText(s)
        THEN [b EXCEPT !.timeLeft = s.intervalValue * UnitMultiplier(s.intervalUnit),
                       !.endTime = Null]
        ELSE IF Truthy(a.endTime)
        THEN IF diff <= 0
             THEN IF ShouldAlertMain(diff, systemSlept)
                  THEN [TriggerAlert(b, "main", s.customReminders) EXCEPT !.timeLeft = 0]
                  ELSE [b EXCEPT !.endTime = now + total * MsPerSecond,
                                 !.timeLeft = total]
             ELSE [b EXCEPT !.timeLeft = diff]
        ELSE IF a.timeLeft > 0
             THEN [b EXCEPT !.endTime = now + a.timeLeft * MsPerSecond]
             ELSE b

\* the countdown block of the tick, run when shouldTickMainTimer; a holds the
\* render's values, b the state the earlier blocks have written
TickCountdown(a, b, now, systemSlept) ==
    LET s == a.settings
        diff == CeilDiv(a.endTime - now, MsPerSecond)
        total == CalculateTotalSeconds(s)
    IN  IF ~HasInterval(s)
        THEN [b EXCEPT !.timeLeft = 0, !.endTime = Null]
        ELSE IF ~HasText(s)
        THEN [b EXCEPT !.timeLeft = s.intervalValue * UnitMultiplier(s.intervalUnit),
                       !.endTime = Null]
        ELSE IF Truthy(a.endTime)
        THEN IF diff <= 0
             THEN IF ShouldAlertMain(diff, systemSlept)
                  THEN LET c == IF "main" \in a.activeAlerts THEN b
                                ELSE TriggerAlert(b, "main", s.customReminders)
                       IN  [c EXCEPT !.timeLeft = 0]
                  ELSE [b EXCEPT !.endTime = now + total * MsPerSecond,
                                 !.timeLeft = total]
             ELSE [b EXCEPT !.timeLeft = diff]
        ELSE IF a.timeLeft > 0
             THEN [b EXCEPT !.endTime = now + a.timeLeft * MsPerSecond]
             ELSE b

\* the main-timer part of the tick
TickMain(a, b, now, systemSlept, d, cache) ==
    LET g == TickGate(b, now, d, cache)
    IN  IF ShouldTickMainTimer(a, d, cache)
        THEN TickCountdown(a, g, now, systemSlept)
        ELSE g

\* ------------------------------------------------------------------------
\* The tick's setTimeout callback: deferred side effects
\* ------------------------------------------------------------------------
RECURSIVE TriggerAll(_, _, _)
TriggerAll(a, alerts, reminders) ==
    IF Len(alerts) = 0 THEN a
    ELSE TriggerAll(TriggerAlert(a, Head(alerts), reminders), Tail(alerts), reminders)

SeqToSet(q) == {q[i] : i \in 1..Len(q)}

\* variant: the updates of the batch not stored
ApplyUpdatesDropped(reminders, updates) == reminders

\* currentReminders.map(r => update ? { ...r, nextTriggerTime } : r)
ApplyUpdates(reminders, updates) ==
    [i \in 1..Len(reminders) |->
        IF \E k \in 1..Len(updates) : updates[k].id = reminders[i].id
        THEN LET k == CHOOSE k \in 1..Len(updates) :
                         /\ updates[k].id = reminders[i].id
                         /\ \A j \in 1..(k - 1) : updates[j].id # reminders[i].id
             IN  [reminders[i] EXCEPT !.nextTriggerTime = updates[k].nextTime]
        ELSE reminders[i]]

\* variant: the removals left out of the batch
BatchUpdateKeepsAll(reminders, updates, removes) == ApplyUpdates(reminders, updates)

\* the setSettings(prev => ...) of the callback
BatchUpdate(reminders, updates, removes) ==
    ApplyUpdates(FilterOut(reminders, SeqToSet(removes)), updates)

\* variant: every alert of the batch raised a second time
RunDeferredTwice(a, p) ==
    LET a1 == TriggerAll(a, p.alerts \o p.alerts, p.reminders)
    IN  [a1 EXCEPT !.settings.customReminders =
                      BatchUpdate(a1.settings.customReminders, p.updates, p.removes)]

\* the whole callback; p = [alerts, updates, removes, reminders]
RunDeferred(a, p) ==
    LET a1 == TriggerAll(a, p.alerts, p.reminders)
    IN  [a1 EXCEPT !.settings.customReminders =
                      BatchUpdate(a1.settings.customReminders, p.updates, p.removes)]

\* ------------------------------------------------------------------------
\* Effects React runs after a render; P is the state of the previous render,
\* R the state of this one, b the state the effects have written so far
\* ------------------------------------------------------------------------
\* effect on [intervalValue, intervalUnit]
EffectMainInterval(P, R, b, now) ==
    LET newTotal == CalculateTotalSeconds(R.settings)
    IN  IF /\ P.settings.intervalValue = R.settings.intervalValue
           /\ P.settings.intervalUnit = R.settings.intervalUnit
        THEN b
        ELSE IF R.status = "running"
        THEN [b EXCEPT !.totalTime = newTotal,
                       !.endTime = now + newTotal * MsPerSecond,
                       !.timeLeft = newTotal]
        ELSE IF R.status \in {"waiting", "paused", "idle"}
        THEN [b EXCEPT !.totalTime = newTotal, !.timeLeft = newTotal,
                       !.endTime = Null]
        ELSE [b EXCEPT !.totalTime = newTotal]

\* effect on [activeHoursRanges, status, activeHoursEnabled, calculateTotalSeconds]
EffectWaitingDisplay(P, R, b) ==
    IF /\ P.settings.activeHoursRanges = R.settings.activeHoursRanges
       /\ P.status = R.status
       /\ P.settings.activeHoursEnabled = R.settings.activeHoursEnabled
       /\ P.settings.intervalValue = R.settings.intervalValue
       /\ P.settings.intervalUnit = R.settings.intervalUnit
    THEN b
    ELSE IF R.status = "waiting" /\ R.settings.activeHoursEnabled
    THEN [b EXCEPT !.timeLeft = CalculateTotalSeconds(R.settings)]
    ELSE b

\* effect on [settings.customReminders]
EffectSyncTimers(P, R, b, now) ==
    IF P.settings.customReminders = R.settings.customReminders THEN b
    ELSE [b EXCEPT !.cts = SyncCustomTimerStates(P.settings.customReminders,
                                                 R.settings.customReminders,
                                                 R.cts, now)]

RECURSIVE DismissAll(_, _, _, _, _, _)
DismissAll(b, closure, ids, now, d, cache) ==
    IF ids = {} THEN b
    ELSE LET id == CHOOSE x \in ids : TRUE
         IN  DismissAll(DismissNotification(b, closure, id, FALSE, now, d, cache),
                        closure, ids \ {id}, now, d, cache)

\* variant: the alerts of removed reminders left alone
EffectDismissOrphansSkipped(P, R, b, now, d, cache) == b

\* effect on [settings.customReminders, activeAlerts, dismissNotification]
EffectDismissOrphans(P, R, b, now, d, cache) ==
    IF P.settings = R.settings /\ P.activeAlerts = R.activeAlerts THEN b
    ELSE DismissAll(b, R.settings,
                    {id \in R.activeAlerts :
                        id # "main" /\ ~HasReminder(R.settings.customReminders, id)},
                    now, d, cache)

\* variant: gating switched off pauses a waiting reminder
EffectGateSwitchOffPauses(P, R, b, now, d, cache) ==
    IF R.settings.activeHoursEnabled /\ ~P.settings.activeHoursEnabled
    THEN IF GateOpen(R.settings, d, cache)
         THEN LET mainTotal == CalculateTotalSeconds(R.settings)
              IN  [b EXCEPT !.endTime = now + mainTotal * MsPerSecond,
                            !.timeLeft = mainTotal, !.status = "running"]
         ELSE [b EXCEPT !.status = "waiting", !.endTime = Null,
                        !.timeLeft = CalculateTotalSeconds(R.settings)]
    ELSE IF ~R.settings.activeHoursEnabled /\ P.settings.activeHoursEnabled
    THEN IF R.status = "waiting" THEN [b EXCEPT !.status = "paused"] ELSE b
    ELSE b

\* the head of the main-loop effect: active-hours gating switched on or off
EffectGateSwitch(P, R, b, now, d, cache) ==
    IF R.settings.activeHoursEnabled /\ ~P.settings.activeHoursEnabled
    THEN IF GateOpen(R.settings, d, cache)
         THEN LET mainTotal == CalculateTotalSeconds(R.settings)
              IN  [b EXCEPT !.endTime = now + mainTotal * MsPerSecond,
                            !.timeLeft = mainTotal, !.status = "running"]
         ELSE [b EXCEPT !.status = "waiting", !.endTime = Null,
                        !.timeLeft = CalculateTotalSeconds(R.settings)]
    ELSE IF ~R.settings.activeHoursEnabled /\ P.settings.activeHoursEnabled
    THEN IF R.status = "waiting" THEN [b EXCEPT !.status = "idle"] ELSE b
    ELSE b

\* the effects of the render after a handler, in declaration order, and those
\* of the render their own updates cause
Settle(P, R, now, d, cache) ==
    LET e1 == EffectMainInterval(P, R, R, now)
        e2 == EffectWaitingDisplay(P, R, e1)
        e3 == EffectSyncTimers(P, R, e2, now)
        e4 == EffectDismissOrphans(P, R, e3, now, d, cache)
        e5 == EffectGateSwitch(P, R, e4, now, d, cache)
        f1 == EffectWaitingDisplay(R, e5, e5)
        f2 == EffectDismissOrphans(R, e5, f1, now, d, cache)
    IN  f2

\* ------------------------------------------------------------------------
\* Input domains of the engine specification
\* ------------------------------------------------------------------------
\* one step of the wall clock
Quantum == SleepThresholdMs \div 2

\* tick deltas: at the threshold and below it (awake), above it (slept), and
\* long enough to leave a deadline more than CustomOverdueSec behind
PassDeltas == {Quantum, SleepThresholdMs, SleepThresholdMs + Quantum,
               (CustomOverdueSec + 1) * MsPerSecond}

\* Date.now() at construction: two seconds before a full minute
StartClock == 2 * SecondsPerMinute * MsPerSecond - 2 * MsPerSecond

EndClock == StartClock + MaxQuanta * Quantum

\* defaultSettings.activeHoursRanges
DefaultRanges ==
    <<[id |-> "default-1", start |-> "09:00", end |-> "12:00"],
      [id |-> "default-2", start |-> "13:00", end |-> "18:00"]>>

\* defaultSettings
DefaultSettings ==
    [intervalUnit |-> "minutes", intervalValue |-> Empty,
     messagePrefix |-> "", messageSuffix |-> "",
     activeHoursEnabled |-> FALSE, activeHoursRanges |-> DefaultRanges,
     workMode |-> "everyday", isBigWeek |-> FALSE, skipHolidays |-> TRUE,
     customReminders |-> <<>>]

\* local dates the engine sees: Wednesday 2025-10-01 at 10:00 and at 12:30
EngineDates ==
    {[year |-> 2025, month |-> 9, date |-> 1, day |-> 3, hours |-> 10, minutes |-> 0],
     [year |-> 2025, month |-> 9, date |-> 1, day |-> 3, hours |-> 12, minutes |-> 30]}

\* values the main interval input delivers: '' or a number >= 1
MainValues == {Empty, 1}
Units == {"seconds", "minutes"}
Prefixes == {"", " "}
Suffixes == {"", "up"}

\* values of the custom reminder form
ReminderValues == {1, 2}
ReminderUnits == {"seconds"}
Titles == {"tea"}
\* the titles the form gives a reminder that is edited
NewTitles == {"water"}

\* the date-time picker has minute resolution
TargetTimes == {2 * SecondsPerMinute * MsPerSecond}

\* ids generateId() returns
MaxReminders == 2 * MaxPerType
IdPool == {"r" \o ToString(k) : k \in 1..MaxReminders}

\* off-days the holiday data set of a year lists
OffDays(year) ==
    IF year = 2025
    THEN {"2025-10-01", "2025-10-02", "2025-10-03", "2025-10-04", "2025-10-05"}
    ELSE IF year = 2026 THEN {"2026-01-01"}
    ELSE {}

NoProbe == [fn |-> "none"]

IdleJob == [stage |-> "idle", year |-> 0, month |-> 0]

\* ------------------------------------------------------------------------
\* Holiday cache (src/utils/timeUtils.ts)
\* ------------------------------------------------------------------------
\* variant of updateHolidays() without the isFetching guard
UpdateHolidaysStartUnguarded(d) ==
    /\ isFetching' = TRUE
    /\ fetchJob' = [stage |-> "current", year |-> d.year, month |-> d.month]
    /\ UNCHANGED <<holidaysCache, fetchedYears>>

\* updateHolidays() up to its first await, called at local date d
UpdateHolidaysStart(d) ==
    IF isFetching
    THEN UNCHANGED holidayVars
    ELSE /\ isFetching' = TRUE
         /\ fetchJob' = [stage |-> "current", year |-> d.year, month |-> d.month]
         /\ UNCHANGED <<holidaysCache, fetchedYears>>

\* the side effect of isWorkDay(): trigger an update when the year is missing
IsWorkDayEffect(called, d) ==
    IF called /\ d.year \notin fetchedYears
    THEN UpdateHolidaysStart(d)
    ELSE UNCHANGED holidayVars

\* fetchSpecificYear(year) settles with outcome "ok", "malformed" or "failed"
FetchedCache(year, outcome) ==
    IF year \notin fetchedYears /\ outcome = "ok"
    THEN holidaysCache \cup OffDays(year)
    ELSE holidaysCache

\* variant: the year marked fetched however the fetch ends
FetchedYearsAfterAnyOutcome(year, outcome) ==
    fetchedYears \cup {year}

FetchedYearsAfter(year, outcome) ==
    IF year \notin fetchedYears /\ outcome = "ok"
    THEN fetchedYears \cup {year}
    ELSE fetchedYears

\* the awaited fetchSpecificYear of the outstanding updateHolidays() settles
FetchSettled(outcome) ==
    /\ fetchJob.stage # "idle"
    /\ LET year == IF fetchJob.stage = "current" THEN fetchJob.year
                   ELSE fetchJob.year + 1
       IN  /\ holidaysCache' = FetchedCache(year, outcome)
           /\ fetchedYears' = FetchedYearsAfter(year, outcome)
    /\ IF fetchJob.stage = "current" /\ fetchJob.month = 11
       THEN /\ fetchJob' = [fetchJob EXCEPT !.stage = "next"]
            /\ isFetching' = isFetching
       ELSE /\ fetchJob' = IdleJob
            /\ isFetching' = FALSE
    /\ out' = <<>>
    /\ UNCHANGED <<notificationWindows, toRenderer, engineVars, date, probe>>

\* ------------------------------------------------------------------------
\* Committing a handler's result
\* ------------------------------------------------------------------------
Commit(a) ==
    /\ settings' = a.settings
    /\ status' = a.status
    /\ endTime' = a.endTime
    /\ timeLeft' = a.timeLeft
    /\ totalTime' = a.totalTime
    /\ customTimerStates' = a.cts
    /\ activeAlerts' = a.activeAlerts
    /\ notificationSnapshots' = a.snapshots
    /\ out' = a.out

\* a handler's result R, the render and the effects after it
CommitSettled(R) == Commit(Settle(AppState, R, clock, date, holidaysCache))

\* ------------------------------------------------------------------------
\* Initial state: the provider mounted, with defaultSettings unless stated
\* ------------------------------------------------------------------------
\* the state and refs of the provider once settings are loaded and the
\* effects of the mount have run
Mounted ==
    /\ status = "idle"
    /\ endTime = Null
    /\ timeLeft = CalculateTotalSeconds(settings)
    /\ totalTime = CalculateTotalSeconds(settings)
    /\ customTimerStates =
          SyncCustomTimerStates(settings.customReminders, settings.customReminders,
                                <<>>, clock)
    /\ activeAlerts = {}
    /\ notificationSnapshots = <<>>
    /\ lastTick = clock
    /\ lastResumeTime = 0
    /\ pending = <<>>
    /\ out = <<>>
    /\ holidaysCache = {}
    /\ fetchedYears = {}
    /\ isFetching = TRUE
    /\ fetchJob = [stage |-> "current", year |-> date.year, month |-> date.month]
    /\ probe = NoProbe
    /\ toRenderer = <<>>
    /\ notificationWindows = <<>>

InitAt(dates) ==
    /\ clock = StartClock
    /\ date \in dates
    /\ settings = DefaultSettings
    /\ Mounted

Init == InitAt(EngineDates)

\* the custom reminders do not read the local date
InitCustom == InitAt({CHOOSE d \in EngineDates : d.hours = 10})

\* ------------------------------------------------------------------------
\* Environment
\* ------------------------------------------------------------------------
\* the interval callback has run since time last passed
Ticked == lastTick = clock

\* time passes: by at most the sleep threshold while the renderer is awake
\* (the interval callback is then the first task to run), by more while the
\* host is suspended or the renderer is stalled
Pass ==
    /\ Ticked
    /\ pending = <<>>
    /\ \E d \in PassDeltas :
          /\ clock + d <= EndClock
          /\ clock' = clock + d
    /\ out' = <<>>
    /\ UNCHANGED <<notificationWindows, toRenderer, date, settings, status, endTime, timeLeft, totalTime,
                   customTimerStates, activeAlerts, notificationSnapshots,
                   lastTick, lastResumeTime, pending, holidayVars, probe>>

\* the local time of day moves into or out of the active hours
LocalTimeChange ==
    /\ \E d \in EngineDates : d # date /\ date' = d
    /\ out' = <<>>
    /\ UNCHANGED <<notificationWindows, toRenderer, engineVars, holidayVars, probe>>

\* ipcRenderer.on('system-resume')
OnSystemResume ==
    /\ clock - lastTick > SleepThresholdMs
    /\ lastResumeTime # clock
    /\ lastResumeTime' = clock
    /\ out' = <<>>
    /\ UNCHANGED <<notificationWindows, toRenderer, clock, date, settings, status, endTime, timeLeft, totalTime,
                   customTimerStates, activeAlerts, notificationSnapshots,
                   lastTick, pending, holidayVars, probe>>

\* ------------------------------------------------------------------------
\* The polling tick and its deferred callback
\* ------------------------------------------------------------------------
TickResult ==
    LET slept == SystemSlept(clock, lastTick, lastResumeTime)
        acc == TickCustom(settings.customReminders, customTimerStates, clock, slept)
        b == [AppState EXCEPT !.cts = acc.cts]
    IN  [acc |-> acc,
         app |-> TickMain(AppState, b, clock, slept, date, holidaysCache)]

Tick ==
    /\ pending = <<>>
    /\ LET t == TickResult
       IN  /\ CommitSettled(t.app)
           /\ pending' =
                IF Len(t.acc.alerts) > 0 \/ Len(t.acc.updates) > 0
                   \/ Len(t.acc.removes) > 0
                THEN <<[alerts |-> t.acc.alerts, updates |-> t.acc.updates,
                        removes |-> t.acc.removes,
                        reminders |-> settings.customReminders]>>
                ELSE <<>>
    /\ lastTick' = clock
    /\ IsWorkDayEffect(settings.activeHoursEnabled, date)
    /\ UNCHANGED <<notificationWindows, toRenderer, clock, date, lastResumeTime, probe>>

Deferred ==
    /\ pending # <<>>
    /\ CommitSettled(RunDeferred(AppState, Head(pending)))
    /\ pending' = Tail(pending)
    /\ UNCHANGED <<notificationWindows, toRenderer, clock, date, lastTick, lastResumeTime, holidayVars, probe>>

\* ------------------------------------------------------------------------
\* Dismissal: the notification's button (fromIpc = FALSE) or the
\* 'notification-closed' message (fromIpc = TRUE)
\* ------------------------------------------------------------------------
DismissCall(id, fromIpc) ==
    /\ Ticked
    /\ CommitSettled(DismissNotification(AppState, settings, id, fromIpc,
                                         clock, date, holidaysCache))
    /\ IsWorkDayEffect(id = "main" /\ settings.activeHoursEnabled, date)
    /\ UNCHANGED <<clock, date, lastTick, lastResumeTime, pending, probe>>

\* a call that no message from the main process has caused
Dismiss(id, fromIpc) ==
    DismissCall(id, fromIpc) /\ UNCHANGED <<notificationWindows, toRenderer>>

\* ------------------------------------------------------------------------
\* User controls
\* ------------------------------------------------------------------------
\* variant: the active-hours check of toggleTimer left out
ToggleTimerResultUnguarded ==
    IF status = "idle" THEN StartTimers(AppState, clock)
    ELSE IF status = "paused" THEN ResumeTimers(AppState, clock)
    ELSE IF status = "running" \/ status = "waiting" THEN PauseTimers(AppState)
    ELSE AppState

ToggleTimerResult ==
    IF settings.activeHoursEnabled THEN AppState
    ELSE IF status = "idle" THEN StartTimers(AppState, clock)
    ELSE IF status = "paused" THEN ResumeTimers(AppState, clock)
    ELSE IF status = "running" \/ status = "waiting" THEN PauseTimers(AppState)
    ELSE AppState

ToggleTimer ==
    /\ Ticked
    /\ CommitSettled(ToggleTimerResult)
    /\ UNCHANGED <<notificationWindows, toRenderer, clock, date, lastTick, lastResumeTime, pending, holidayVars, probe>>

\* updateSettings(newSettings) for the main reminder's fields
UpdateSettings(new) ==
    /\ Ticked
    /\ new # settings
    /\ CommitSettled([AppState EXCEPT !.settings = new])
    /\ IsWorkDayEffect(new.activeHoursEnabled /\ ~settings.activeHoursEnabled, date)
    /\ UNCHANGED <<notificationWindows, toRenderer, clock, date, lastTick, lastResumeTime, pending, probe>>

SetIntervalValue == \E v \in MainValues : UpdateSettings([settings EXCEPT !.intervalValue = v])

SetIntervalUnit == \E u \in Units : UpdateSettings([settings EXCEPT !.intervalUnit = u])

SetMessagePrefix == \E t \in Prefixes : UpdateSettings([settings EXCEPT !.messagePrefix = t])

SetMessageSuffix == \E t \in Suffixes : UpdateSettings([settings EXCEPT !.messageSuffix = t])

SetActiveHoursEnabled ==
    UpdateSettings([settings EXCEPT !.activeHoursEnabled = ~settings.activeHoursEnabled])

\* ------------------------------------------------------------------------
\* Reminder handlers (src/components/SettingsPanel.tsx)
\* ------------------------------------------------------------------------
\* ids in use: of a reminder, of an alert or of a callback not yet run
IdsInUse ==
    ReminderIds(settings.customReminders) \cup activeAlerts
    \cup UNION {SeqToSet(pending[i].alerts) \cup SeqToSet(pending[i].removes)
                \cup {pending[i].updates[k].id : k \in 1..Len(pending[i].updates)}
                : i \in 1..Len(pending)}

CountOfType(reminders, type) ==
    Cardinality({i \in 1..Len(reminders) : reminders[i].type = type})

\* generateId(): an id not in use (the first of the pool)
FreshId ==
    "r" \o ToString(CHOOSE k \in 1..MaxReminders :
                        /\ ("r" \o ToString(k)) \notin IdsInUse
                        /\ \A j \in 1..(k - 1) : ("r" \o ToString(j)) \in IdsInUse)

\* the fields saveCustomReminder gives a reminder of the form's type
FormFields(type, value, unit, target, now) ==
    IF type = "interval"
    THEN [intervalValue |-> value, intervalUnit |-> unit, targetDateTime |-> Null,
          nextTriggerTime |-> now + value * UnitMultiplier(unit) * MsPerSecond]
    ELSE [intervalValue |-> Null, intervalUnit |-> "none", targetDateTime |-> target,
          nextTriggerTime |-> Null]

\* whether saveCustomReminder accepts the form
FormAccepted(type, value, target, now) ==
    IF type = "onetime" THEN target >= now ELSE value > 0

NewReminder(id, title, type, value, unit, target, now) ==
    LET f == FormFields(type, value, unit, target, now)
    IN  [id |-> id, title |-> title, type |-> type, enabled |-> TRUE,
         intervalValue |-> f.intervalValue, intervalUnit |-> f.intervalUnit,
         targetDateTime |-> f.targetDateTime, nextTriggerTime |-> f.nextTriggerTime]

SetReminders(reminders) ==
    /\ Ticked
    /\ CommitSettled([AppState EXCEPT !.settings.customReminders = reminders])
    /\ UNCHANGED <<notificationWindows, toRenderer, clock, date, lastTick, lastResumeTime, pending, holidayVars, probe>>

\* saveCustomReminder with editingId = null
AddReminder ==
    /\ Len(settings.customReminders) < MaxReminders
    /\ \E id \in IdPool \ IdsInUse, title \in Titles, type \in {"interval", "onetime"},
          value \in ReminderValues, unit \in ReminderUnits, target \in TargetTimes :
        /\ id = FreshId
        /\ CountOfType(settings.customReminders, type) < MaxPerType
        /\ type = "interval" => target = CHOOSE t \in TargetTimes : TRUE
        /\ type = "onetime" =>
              /\ value = CHOOSE v \in ReminderValues : TRUE
              /\ unit = CHOOSE u \in ReminderUnits : TRUE
        /\ FormAccepted(type, value, target, clock)
        /\ SetReminders(Append(settings.customReminders,
                               NewReminder(id, title, type, value, unit, target, clock)))

\* deleteCustomReminder(id)
DeleteReminder ==
    \E i \in 1..Len(settings.customReminders) :
        SetReminders(FilterOut(settings.customReminders,
                               {settings.customReminders[i].id}))

\* variant: a OneTime reminder whose time has passed enabled like any other
ToggledRemindersKeepsSpent(reminders, i, now) ==
    LET r == reminders[i]
        nextEnabled == ~r.enabled
        nextTriggerTime ==
            IF r.type = "interval"
            THEN IF nextEnabled /\ ~Truthy(r.nextTriggerTime)
                 THEN now + OrZero(r.intervalValue) * UnitMultiplier(r.intervalUnit)
                            * MsPerSecond
                 ELSE r.nextTriggerTime
            ELSE IF nextEnabled THEN r.nextTriggerTime ELSE Null
    IN  [reminders EXCEPT ![i] = [r EXCEPT !.enabled = nextEnabled,
                                            !.nextTriggerTime = nextTriggerTime]]

\* the collection toggleCustomReminder(id) passes to updateSettings
ToggledReminders(reminders, i, now) ==
    LET r == reminders[i]
        nextEnabled == ~r.enabled
        nextTriggerTime ==
            IF nextEnabled
            THEN IF r.type = "interval"
                 THEN IF ~Truthy(r.nextTriggerTime)
                      THEN now + OrZero(r.intervalValue) * UnitMultiplier(r.intervalUnit)
                                 * MsPerSecond
                      ELSE r.nextTriggerTime
                 ELSE r.nextTriggerTime
            ELSE IF r.type = "interval" THEN r.nextTriggerTime ELSE Null
    IN  IF /\ nextEnabled /\ r.type = "onetime" /\ Truthy(r.targetDateTime)
           /\ r.targetDateTime <= now
        THEN FilterOut(reminders, {r.id})
        ELSE [reminders EXCEPT ![i] = [r EXCEPT !.enabled = nextEnabled,
                                                !.nextTriggerTime = nextTriggerTime]]

ToggleReminder ==
    \E i \in 1..Len(settings.customReminders) :
        SetReminders(ToggledReminders(settings.customReminders, i, clock))

\* the collection saveCustomReminder passes to updateSettings when the form
\* edits the reminder at i
EditedReminders(reminders, i, title, type, value, unit, target, now) ==
    LET f == FormFields(type, value, unit, target, now)
    IN  [reminders EXCEPT ![i] =
            [@ EXCEPT !.title = title, !.type = type,
                      !.intervalValue = f.intervalValue,
                      !.intervalUnit = f.intervalUnit,
                      !.targetDateTime = f.targetDateTime,
                      !.nextTriggerTime = f.nextTriggerTime,
                      !.enabled = TRUE]]

\* saveCustomReminder with editingId set: the reminder is given a new title
\* and keeps its type and period
RenameReminder ==
    \E i \in 1..Len(settings.customReminders), title \in NewTitles :
        LET r == settings.customReminders[i]
        IN  /\ r.type = "interval"
            /\ FormAccepted(r.type, r.intervalValue, Null, clock)
            /\ SetReminders(EditedReminders(settings.customReminders, i, title,
                                            r.type, r.intervalValue,
                                            r.intervalUnit, Null, clock))

\* ------------------------------------------------------------------------
\* The engine
\* ------------------------------------------------------------------------
DismissAny == \E id \in {"main"} \cup IdPool, fromIpc \in BOOLEAN : Dismiss(id, fromIpc)

FetchAny == \E outcome \in {"ok", "failed"} : FetchSettled(outcome)

Next ==
    \/ Pass
    \/ LocalTimeChange
    \/ OnSystemResume
    \/ Tick
    \/ Deferred
    \/ DismissAny
    \/ ToggleTimer
    \/ SetIntervalValue
    \/ SetIntervalUnit
    \/ SetMessagePrefix
    \/ SetMessageSuffix
    \/ SetActiveHoursEnabled
    \/ AddReminder
    \/ DeleteReminder
    \/ ToggleReminder
    \/ FetchAny

\* the whole engine; the specifications below explore parts of it
Spec == Init /\ [][Next]_vars

\* the main reminder alone: no custom reminder is ever added
NextMain ==
    \/ Pass
    \/ LocalTimeChange
    \/ OnSystemResume
    \/ Tick
    \/ DismissAny
    \/ ToggleTimer
    \/ SetIntervalValue
    \/ SetIntervalUnit
    \/ SetMessagePrefix
    \/ SetMessageSuffix
    \/ SetActiveHoursEnabled
    \/ FetchAny

SpecMain == Init /\ [][NextMain]_vars

\* the custom reminders alone: the main reminder stays unconfigured and idle
NextCustom ==
    \/ Pass
    \/ OnSystemResume
    \/ Tick
    \/ Deferred
    \/ DismissAny
    \/ AddReminder
    \/ DeleteReminder
    \/ ToggleReminder

SpecCustom == InitCustom /\ [][NextCustom]_vars

\* saveCustomReminder with editingId set: any reminder, any accepted form
EditReminder ==
    \E i \in 1..Len(settings.customReminders), title \in NewTitles,
       type \in {"interval", "onetime"}, value \in ReminderValues,
       unit \in ReminderUnits, target \in TargetTimes :
        /\ type = "interval" => target = CHOOSE t \in TargetTimes : TRUE
        /\ type = "onetime" =>
              /\ value = CHOOSE v \in ReminderValues : TRUE
              /\ unit = CHOOSE u \in ReminderUnits : TRUE
        /\ FormAccepted(type, value, target, clock)
        /\ SetReminders(EditedReminders(settings.customReminders, i, title, type,
                                        value, unit, target, clock))

\* one custom reminder at a time under every operation of the settings form
SpecLifecycle ==
    InitCustom /\ [][\/ Pass \/ Tick \/ Deferred \/ DismissAny
                     \/ settings.customReminders = <<>> /\ AddReminder
                     \/ DeleteReminder \/ ToggleReminder \/ EditReminder]_vars

\* ------------------------------------------------------------------------
\* The engine started from saved settings: the main reminder is configured,
\* and an Interval reminder may have been saved before the application was
\* closed, its next trigger time now three and a half seconds in the past
\* ------------------------------------------------------------------------
SavedInterval(value, unit, nextTriggerTime) ==
    [id |-> "r1", title |-> "tea", type |-> "interval", enabled |-> TRUE,
     intervalValue |-> value, intervalUnit |-> unit, targetDateTime |-> Null,
     nextTriggerTime |-> nextTriggerTime]

SavedReminderLists ==
    {<<>>,
     <<SavedInterval(2, "seconds",
                     StartClock - CustomOverdueSec * MsPerSecond - Quantum)>>}

SavedSettings ==
    {[DefaultSettings EXCEPT !.intervalValue = 1, !.intervalUnit = "seconds",
                             !.messagePrefix = "sit", !.customReminders = l] :
     l \in SavedReminderLists}

InitSaved ==
    /\ clock = StartClock
    /\ date = CHOOSE d \in EngineDates : d.hours = 10
    /\ settings \in SavedSettings
    /\ Mounted

NextSaved ==
    \/ Pass
    \/ OnSystemResume
    \/ Tick
    \/ Deferred
    \/ DismissAny
    \/ ToggleTimer
    \/ AddReminder
    \/ DeleteReminder
    \/ ToggleReminder

SpecSaved == InitSaved /\ [][NextSaved]_vars

\* ------------------------------------------------------------------------
\* The engine with a saved Interval reminder of one second, and a user who
\* edits the reminder and the main reminder's text and interval while alerts
\* are shown
\* ------------------------------------------------------------------------
EditSettings ==
    [DefaultSettings EXCEPT !.intervalValue = 1, !.intervalUnit = "seconds",
                            !.messagePrefix = "sit",
                            !.customReminders =
                                <<SavedInterval(1, "seconds",
                                                StartClock + MsPerSecond)>>]

InitEdit ==
    /\ clock = StartClock
    /\ date = CHOOSE d \in EngineDates : d.hours = 10
    /\ settings = EditSettings
    /\ Mounted

NextEdit ==
    \/ Pass
    \/ Tick
    \/ Deferred
    \/ DismissAny
    \/ ToggleTimer
    \/ RenameReminder
    \/ SetMessagePrefix
    \/ SetIntervalValue

SpecEdit == InitEdit /\ [][NextEdit]_vars

\* the same start, and a user who starts and pauses the main reminder and
\* switches the active-hours gating while the local time moves into and out
\* of the active hours
SpecGate ==
    InitEdit /\ [][Pass \/ Tick \/ Deferred \/ DismissAny \/ ToggleTimer
                  \/ SetActiveHoursEnabled \/ LocalTimeChange]_vars

\* ------------------------------------------------------------------------
\* The engine mounted ten seconds earlier, with an Interval reminder of ten
\* seconds and a OneTime reminder that fall due around the end of the grace
\* window of a resume message received soon after the mount
\* ------------------------------------------------------------------------
ResumeStartClock == StartClock - ResumeGraceMs

\* seconds that pass at a time while the ticks find nothing due
QuietSeconds == {7, 8}

\* that many seconds pass, the interval callback running all the while and
\* finding nothing due: the last of its runs leaves the countdowns it shows
QuietTicks ==
    /\ Ticked
    /\ pending = <<>>
    /\ status # "running"
    /\ ~settings.activeHoursEnabled
    /\ \E n \in QuietSeconds :
          LET now == clock + n * MsPerSecond
              acc == TickCustom(settings.customReminders, customTimerStates,
                                now, FALSE)
          IN  /\ now <= EndClock
              /\ acc.alerts = <<>> /\ acc.updates = <<>> /\ acc.removes = <<>>
              /\ clock' = now
              /\ lastTick' = now
              /\ customTimerStates' = acc.cts
    /\ out' = <<>>
    /\ UNCHANGED <<notificationWindows, toRenderer, date, settings, status, endTime, timeLeft, totalTime,
                   activeAlerts, notificationSnapshots, lastResumeTime, pending,
                   holidayVars, probe>>

InitResume ==
    /\ clock = ResumeStartClock
    /\ date = CHOOSE d \in EngineDates : d.hours = 10
    /\ settings \in
         {[DefaultSettings EXCEPT
              !.intervalValue = 1, !.intervalUnit = "seconds", !.messagePrefix = "sit",
              !.customReminders =
                 <<SavedInterval(10, "seconds", StartClock + MsPerSecond),
                   NewReminder("r2", "tea", "onetime", Null, "none", t, clock)>>] :
          t \in {StartClock + MsPerSecond, StartClock + MsPerSecond + Quantum}}
    /\ Mounted

SpecResume ==
    InitResume /\ [][Pass \/ OnSystemResume \/ Tick \/ Deferred \/ QuietTicks]_vars

\* ------------------------------------------------------------------------
\* One saved Interval reminder, mounted a second before its deadline, and a
\* gap of three and a half periods before the next tick
\* ------------------------------------------------------------------------
AnchorValues == {1, 2, 3, 4, 5}
AnchorUnits == {"seconds", "minutes"}
AnchorStarts == {StartClock, StartClock + Quantum, StartClock + MsPerSecond}

InitAnchor ==
    /\ clock \in AnchorStarts
    /\ date = CHOOSE d \in EngineDates : d.hours = 10
    /\ settings \in {[DefaultSettings EXCEPT !.customReminders =
                        <<SavedInterval(v, u, clock + MsPerSecond)>>] :
                     v \in AnchorValues, u \in AnchorUnits}
    /\ Mounted

\* no tick runs until three and a half periods after the reminder's deadline
LongGap ==
    /\ Ticked
    /\ pending = <<>>
    /\ Len(settings.customReminders) = 1
    /\ LET r == settings.customReminders[1]
       IN  /\ r.id \in DOMAIN customTimerStates
           /\ customTimerStates[r.id].endTime = clock + MsPerSecond
           /\ clock' = customTimerStates[r.id].endTime + (7 * TotalMs(r)) \div 2
    /\ out' = <<>>
    /\ UNCHANGED <<notificationWindows, toRenderer, date, settings, status, endTime, timeLeft, totalTime,
                   customTimerStates, activeAlerts, notificationSnapshots,
                   lastTick, lastResumeTime, pending, holidayVars, probe>>

NextAnchor ==
    \/ LongGap
    \/ OnSystemResume
    \/ Tick
    \/ Deferred
    \/ ToggleReminder

SpecAnchor == InitAnchor /\ [][NextAnchor]_vars

\* the gaps, in half periods, around the hundred periods after which the
\* tick takes the anchor for stale
StaleGapHalfPeriods == {2 * StaleAnchorPeriods - 1, 2 * StaleAnchorPeriods,
                        2 * StaleAnchorPeriods + 1}

\* no tick runs until about a hundred periods after the reminder's deadline
StaleGap ==
    /\ Ticked
    /\ pending = <<>>
    /\ Len(settings.customReminders) = 1
    /\ LET r == settings.customReminders[1]
       IN  /\ r.id \in DOMAIN customTimerStates
           /\ customTimerStates[r.id].endTime = clock + MsPerSecond
           /\ \E h \in StaleGapHalfPeriods :
                 clock' = customTimerStates[r.id].endTime + (h * TotalMs(r)) \div 2
    /\ out' = <<>>
    /\ UNCHANGED <<notificationWindows, toRenderer, date, settings, status, endTime, timeLeft, totalTime,
                   customTimerStates, activeAlerts, notificationSnapshots,
                   lastTick, lastResumeTime, pending, holidayVars, probe>>

SpecStaleGap == InitAnchor /\ [][NextAnchor \/ StaleGap]_vars

\* ------------------------------------------------------------------------
\* isWithinActiveHours applied to drawn ranges and times of day
\* ------------------------------------------------------------------------
\* values of a time picker: unset, or "HH:MM"
PickerTimes == {"", "00:00", "06:00", "09:00", "12:00", "12:30", "13:00", "18:00", "22:00"}

TimeRange(id, start, end) == [id |-> id, start |-> start, end |-> end]

RangeLists ==
    {<<>>, DefaultRanges}
    \cup {<<TimeRange("t1", a, b)>> : a \in PickerTimes, b \in PickerTimes}
    \cup {<<TimeRange("t1", a, a), TimeRange("t2", "09:00", b)>> :
            a \in {"", "22:00"}, b \in {"", "12:00", "06:00"}}

ProbeHours == 0..23
ProbeMinutes == {0, 1, 29, 30, 59}

InitActiveHours ==
    /\ clock = StartClock
    /\ date \in {[year |-> 2025, month |-> 9, date |-> 1, day |-> 3,
                  hours |-> h, minutes |-> m] : h \in ProbeHours, m \in ProbeMinutes}
    /\ settings \in {[DefaultSettings EXCEPT !.activeHoursRanges = l] : l \in RangeLists}
    /\ Mounted

CallIsWithinActiveHours ==
    /\ probe = NoProbe
    /\ probe' = [fn |-> "isWithinActiveHours",
                 ranges |-> settings.activeHoursRanges,
                 hours |-> date.hours, minutes |-> date.minutes,
                 value |-> IsWithinActiveHours(settings.activeHoursRanges, date)]
    /\ UNCHANGED <<notificationWindows, toRenderer, engineVars, out, date, holidayVars>>

SpecActiveHours == InitActiveHours /\ [][CallIsWithinActiveHours]_vars

\* ------------------------------------------------------------------------
\* isWorkDay applied to drawn dates and policies while holiday data arrives
\* ------------------------------------------------------------------------
WorkModes == {"everyday", "weekend", "big-small"}

LocalDate(year, month, day, weekday) ==
    [year |-> year, month |-> month, date |-> day, day |-> weekday,
     hours |-> 10, minutes |-> 0]

\* Saturday 2025-09-27 to Sunday 2025-10-05, then the turn of the year
WorkDates ==
    {LocalDate(2025, 8, 27, 6), LocalDate(2025, 8, 28, 0), LocalDate(2025, 8, 29, 1),
     LocalDate(2025, 8, 30, 2), LocalDate(2025, 9, 1, 3), LocalDate(2025, 9, 2, 4),
     LocalDate(2025, 9, 3, 5), LocalDate(2025, 9, 4, 6), LocalDate(2025, 9, 5, 0),
     LocalDate(2025, 11, 31, 3), LocalDate(2026, 0, 1, 4)}

InitWorkDay ==
    /\ clock = StartClock
    /\ date \in WorkDates
    /\ settings \in {[DefaultSettings EXCEPT !.workMode = m, !.isBigWeek = b,
                                             !.skipHolidays = k] :
                     m \in WorkModes, b \in BOOLEAN, k \in BOOLEAN}
    /\ Mounted

CallIsWorkDay ==
    /\ probe' = [fn |-> "isWorkDay", mode |-> settings.workMode,
                 skipHolidays |-> settings.skipHolidays,
                 isBigWeek |-> settings.isBigWeek,
                 date |-> date, cache |-> holidaysCache,
                 value |-> IsWorkDayValue(settings.workMode, settings.skipHolidays,
                                          settings.isBigWeek, date, holidaysCache)]
    /\ IsWorkDayEffect(TRUE, date)
    /\ UNCHANGED <<notificationWindows, toRenderer, engineVars, out, date>>

FetchOutcome == \E outcome \in {"ok", "malformed", "failed"} : FetchSettled(outcome)

\* midnight passes: the local date becomes the next of WorkDates
NextDay ==
    /\ \E d \in WorkDates :
          /\ \/ d.year = date.year /\ d.month = date.month /\ d.date = date.date + 1
             \/ d.year = date.year /\ d.month = date.month + 1 /\ d.date = 1
                /\ d.day = (date.day + 1) % 7
             \/ d.year = date.year + 1 /\ d.month = 0 /\ d.date = 1 /\ date.month = 11
          /\ date' = d
    /\ out' = <<>>
    /\ UNCHANGED <<notificationWindows, toRenderer, engineVars, holidayVars, probe>>

NextWorkDay ==
    \/ CallIsWorkDay
    \/ FetchOutcome
    \/ NextDay

SpecWorkDay == InitWorkDay /\ [][NextWorkDay]_vars

\* the same, every fetch settling in the end: the request is answered or fails
SpecWorkDayFair == SpecWorkDay /\ WF_vars(FetchOutcome)

\* ------------------------------------------------------------------------
\* Properties of dismissal
\* ------------------------------------------------------------------------
\* ids of the messages of q sent on channel, in order
MessageIds(q, channel) ==
    LET sent == SelectSeq(q, LAMBDA m : m.channel = channel)
    IN  [i \in 1..Len(sent) |-> sent[i].id]

DismissIds == {"main"} \cup IdPool

\* what a dismissal that does nothing leaves alone
DismissLeavesStateAlone ==
    /\ UNCHANGED <<status, endTime, timeLeft, activeAlerts, notificationSnapshots>>
    /\ settings'.customReminders = settings.customReminders

\* C1: a dismiss(id) called right after a dismiss(id) leaves the main status,
\* endTime and timeLeft, ActiveAlerts, NotificationSnapshots and the reminder
\* collection as the first call left them, and sends no message.
C1_SecondDismissChangesNothing ==
    [][\A id \in DismissIds :
          (/\ id \in SeqToSet(MessageIds(out, "dismiss-notification"))
           /\ Dismiss(id, FALSE))
          => (DismissLeavesStateAlone /\ out' = <<>>)]_vars

\* C2: a dismiss of an id that is not in ActiveAlerts changes neither the main
\* status, endTime and timeLeft, nor the reminder collection, ActiveAlerts and
\* NotificationSnapshots, and sends no dismiss message.
C2_DismissOfInactiveIdIsNoOp ==
    [][\A id \in DismissIds, fromIpc \in BOOLEAN :
          (id \notin activeAlerts /\ Dismiss(id, fromIpc))
          => (/\ DismissLeavesStateAlone
              /\ MessageIds(out', "dismiss-notification") = <<>>)]_vars

\* ------------------------------------------------------------------------
\* Properties of the custom reminders' tick
\* ------------------------------------------------------------------------
\* the sleep flag the tick that runs now will compute
TickSleepFlagged ==
    \/ clock - lastTick > SleepThresholdMs
    \/ clock - lastResumeTime < ResumeGraceMs

\* reminder r is enabled and its deadline has been reached
Due(r) ==
    /\ r.enabled
    /\ r.id \in DOMAIN customTimerStates
    /\ Truthy(customTimerStates[r.id].endTime)
    /\ customTimerStates[r.id].endTime <= clock

\* the deadline of r is behind by so much that the tick flags it overdue
FlaggedOverdue(r) ==
    clock - customTimerStates[r.id].endTime >= (CustomOverdueSec + 1) * MsPerSecond

\* the ids a tick that runs now has to alert, in the order of the collection
ExpiriesToAlert ==
    LET due == SelectSeq(settings.customReminders,
                         LAMBDA r : Due(r) /\ ~TickSleepFlagged /\ ~FlaggedOverdue(r))
    IN  [i \in 1..Len(due) |-> due[i].id]

PendingAlerts(q) == IF q = <<>> THEN <<>> ELSE Head(q).alerts

PendingRemoves(q) == IF q = <<>> THEN <<>> ELSE Head(q).removes

PendingUpdates(q) == IF q = <<>> THEN <<>> ELSE Head(q).updates

\* the step is the tick's deferred callback
DeferredStep == pending # <<>> /\ pending' = Tail(pending)

CustomNotifies(q) ==
    LET ids == MessageIds(q, "trigger-notification")
    IN  SelectSeq(ids, LAMBDA id : id # "main")

\* C3: a tick records for alerting exactly the enabled custom reminders whose
\* deadline it finds reached while it is neither sleep-flagged nor flags the
\* deadline overdue, each once; the deadline it has seen is then cleared or in
\* the future; the tick's deferred callback sends exactly one notification per
\* recorded id, and no other step sends a notification for a custom reminder.
C3_ExactlyOnceAlerting ==
    [][/\ Tick => /\ PendingAlerts(pending') = ExpiriesToAlert
                  /\ \A i \in 1..Len(settings.customReminders) :
                        LET r == settings.customReminders[i]
                        IN  Due(r) =>
                              \/ customTimerStates'[r.id].endTime = Null
                              \/ customTimerStates'[r.id].endTime > clock
       /\ CustomNotifies(out') =
            IF DeferredStep THEN PendingAlerts(pending) ELSE <<>>]_vars

\* a notification for a custom reminder has just been sent
C3_Witness == Len(CustomNotifies(out)) > 0

\* the first tick, half a second after the start, has passed over the saved
\* reminder's deadline without alerting: it flagged the deadline overdue
C3_OverdueSkipped ==
    /\ Ticked
    /\ clock = StartClock + Quantum
    /\ PendingAlerts(pending) = <<>>
    /\ Len(PendingUpdates(pending)) > 0

\* C5: a tick that runs more than 1000 ms after the previous one records no
\* alert and sends no notification, a main countdown that is due restarts
\* without alerting, and every due Interval reminder gets an endTime in the
\* future.
C5_SleepSuppression ==
    [][(Tick /\ clock - lastTick > SleepThresholdMs) =>
          /\ PendingAlerts(pending') = <<>>
          /\ MessageIds(out', "trigger-notification") = <<>>
          /\ (status = "running" /\ Truthy(endTime) /\ endTime <= clock) =>
                /\ status' = "running"
                /\ "main" \notin activeAlerts' \ activeAlerts
                /\ endTime' > clock
          /\ \A i \in 1..Len(settings.customReminders) :
                LET r == settings.customReminders[i]
                IN  (Due(r) /\ r.type = "interval") =>
                       customTimerStates'[r.id].endTime > clock]_vars

\* the tick after a resume (which is only signalled when the previous tick is
\* more than the threshold back) has met a due Interval reminder: it has
\* rescheduled it and recorded no alert
C5_Witness ==
    /\ Ticked
    /\ lastResumeTime = clock
    /\ PendingAlerts(pending) = <<>>
    /\ Len(PendingUpdates(pending)) > 0

\* a OneTime reminder that has not fired: its row still holds the deadline
Unfired(r) ==
    /\ r.type = "onetime"
    /\ r.id \in DOMAIN customTimerStates
    /\ Truthy(customTimerStates[r.id].endTime)

\* C6: a OneTime reminder that has not fired is not in ActiveAlerts; the
\* sleep-flagged tick that finds it due records it for removal and not for
\* alerting, and the tick's deferred callback takes it out of the collection
\* with its id still not in ActiveAlerts.
C6_MissedOneTimeRemoved ==
    [][/\ \A i \in 1..Len(settings.customReminders) :
            LET r == settings.customReminders[i]
            IN  (r.enabled /\ Unfired(r)) => r.id \notin activeAlerts
       /\ (Tick /\ TickSleepFlagged) =>
            \A i \in 1..Len(settings.customReminders) :
               LET r == settings.customReminders[i]
               IN  (Due(r) /\ r.type = "onetime") =>
                      /\ r.id \in SeqToSet(PendingRemoves(pending'))
                      /\ r.id \notin SeqToSet(PendingAlerts(pending'))
                      /\ r.id \notin activeAlerts'
       /\ DeferredStep =>
            \A id \in SeqToSet(PendingRemoves(pending)) :
               /\ ~HasReminder(settings'.customReminders, id)
               /\ id \notin activeAlerts']_vars

\* the tick after a resume has met a due OneTime reminder and recorded it for
\* removal
C6_Witness ==
    /\ Ticked
    /\ lastResumeTime = clock
    /\ Len(PendingRemoves(pending)) > 0
    /\ PendingAlerts(pending) = <<>>

\* ------------------------------------------------------------------------
\* Properties of the anchor
\* ------------------------------------------------------------------------
\* the only reminder's deadline T was last seen by a tick at T - 1s and the
\* clock now reads T + 3.5 P
AfterLongGap ==
    /\ Len(settings.customReminders) = 1
    /\ LET r == settings.customReminders[1]
       IN  /\ r.type = "interval"
           /\ Due(r)
           /\ lastTick = customTimerStates[r.id].endTime - MsPerSecond
           /\ 2 * (clock - customTimerStates[r.id].endTime) = 7 * TotalMs(r)

AnchorPeriod == TotalMs(settings.customReminders[1])

AnchorEnd == customTimerStates[settings.customReminders[1].id].endTime

\* C4 as stated: for every period P the tick after the gap assigns T + 4P.
C4_AnchorFourPeriods ==
    [][(Tick /\ AfterLongGap) => AnchorEnd' = AnchorEnd + 4 * AnchorPeriod]_vars

\* C4: the tick after the gap assigns T + 4P when P is more than two seconds,
\* and T + 5P when P is two seconds or less; never now + P.
C4_AnchorAfterLongGap ==
    [][(Tick /\ AfterLongGap) =>
          /\ AnchorPeriod > 2 * RescheduleBufferMs =>
                AnchorEnd' = AnchorEnd + 4 * AnchorPeriod
          /\ AnchorPeriod <= 2 * RescheduleBufferMs =>
                AnchorEnd' = AnchorEnd + 5 * AnchorPeriod
          /\ AnchorEnd' # clock + AnchorPeriod]_vars

\* the tick after the gap has run for a period of more than two seconds: the
\* new deadline is half a period ahead
C4_Witness ==
    /\ Len(settings.customReminders) = 1
    /\ settings.customReminders[1].enabled
    /\ Ticked
    /\ AnchorPeriod > 2 * RescheduleBufferMs
    /\ clock - StartClock > 3 * AnchorPeriod
    /\ 2 * (AnchorEnd - clock) = AnchorPeriod

\* ------------------------------------------------------------------------
\* Properties of the main reminder
\* ------------------------------------------------------------------------
\* the main reminder may fire: a positive interval and some message text
MainConfigured(s) ==
    /\ s.intervalValue # Empty
    /\ s.intervalValue >= 1
    /\ \/ \E i \in 1..Len(s.messagePrefix) : SubSeq(s.messagePrefix, i, i) # " "
       \/ \E i \in 1..Len(s.messageSuffix) : SubSeq(s.messageSuffix, i, i) # " "

\* C7: no step makes the main status alert_active or puts "main" into
\* ActiveAlerts while the main interval is unset or not positive or both
\* message fragments are blank.
C7_MainFireGate ==
    [][(\/ status' = "alert_active" /\ status # "alert_active"
        \/ "main" \in activeAlerts' \ activeAlerts)
       => (MainConfigured(settings) /\ MainConfigured(settings'))]_vars

\* ticks have run over a running main reminder that is not configured
C7_Witness ==
    /\ status = "running"
    /\ settings.intervalValue = Empty
    /\ timeLeft = 0
    /\ endTime = Null
    /\ Ticked
    /\ clock - StartClock >= 2 * MsPerSecond

\* the main reminder has fired
C7_WitnessFired == status = "alert_active" /\ "main" \in activeAlerts

\* seconds per unit of the main interval
SecondsPer(unit) ==
    CASE unit = "seconds" -> 1
      [] unit = "minutes" -> 60
      [] unit = "hours" -> 3600

BlankText(s) ==
    /\ \A i \in 1..Len(s.messagePrefix) : SubSeq(s.messagePrefix, i, i) = " "
    /\ \A i \in 1..Len(s.messageSuffix) : SubSeq(s.messageSuffix, i, i) = " "

\* C8: after a tick that finds the main status running and leaves it running,
\* timeLeft is 0 and endTime null when no positive interval is set, and
\* timeLeft is the interval times its unit and endTime null when the interval
\* is set and both message fragments are blank.
C8_FrozenMainDisplay ==
    [][(Tick /\ status = "running" /\ status' = "running") =>
          /\ (settings.intervalValue = Empty \/ settings.intervalValue < 1) =>
                (timeLeft' = 0 /\ endTime' = Null)
          /\ (settings.intervalValue # Empty /\ settings.intervalValue >= 1
                /\ BlankText(settings)) =>
                (/\ timeLeft' = settings.intervalValue * SecondsPer(settings.intervalUnit)
                 /\ endTime' = Null)]_vars

\* a tick has frozen the display of a running main reminder without text
C8_Witness ==
    /\ status = "running"
    /\ Ticked
    /\ clock - StartClock >= MsPerSecond
    /\ settings.intervalValue = 1
    /\ settings.intervalUnit = "seconds"
    /\ BlankText(settings)
    /\ timeLeft = 1
    /\ endTime = Null

\* ------------------------------------------------------------------------
\* Properties of the calendar functions
\* ------------------------------------------------------------------------
\* minute of the day of a picker time; an unset time is read as 00:00
MinuteOfDay(t) ==
    CASE t = "" -> 0
      [] t = "00:00" -> 0
      [] t = "06:00" -> 360
      [] t = "09:00" -> 540
      [] t = "12:00" -> 720
      [] t = "12:30" -> 750
      [] t = "13:00" -> 780
      [] t = "18:00" -> 1080
      [] t = "22:00" -> 1320

\* the reference: a range from minute a to minute b contains minute m
Contains(a, b, m) ==
    IF b > a THEN a <= m /\ m < b ELSE m >= a \/ m < b

Complete(range) == range.start # "" /\ range.end # ""

ProbedMinute == probe.hours * 60 + probe.minutes

ProbedAt(h, m) == probe.hours = h /\ probe.minutes = m

CrossMidnight == <<TimeRange("t1", "22:00", "06:00")>>

\* the examples of the description
ActiveHoursExamples ==
    /\ (probe.ranges = DefaultRanges /\ (ProbedAt(10, 0) \/ ProbedAt(14, 0)))
          => probe.value = TRUE
    /\ (probe.ranges = DefaultRanges /\ (ProbedAt(12, 30) \/ ProbedAt(20, 0)))
          => probe.value = FALSE
    /\ (probe.ranges = CrossMidnight /\ (ProbedAt(23, 0) \/ ProbedAt(2, 0)))
          => probe.value = TRUE
    /\ (probe.ranges = CrossMidnight /\ ProbedAt(10, 0)) => probe.value = FALSE

\* C9 as stated: isWithinActiveHours is true for the empty list and otherwise
\* exactly when some range of the list contains the minute of the day.
C9_ActiveHoursEveryRange ==
    probe.fn = "isWithinActiveHours" =>
        probe.value =
            (\/ probe.ranges = <<>>
             \/ \E i \in 1..Len(probe.ranges) :
                   Contains(MinuteOfDay(probe.ranges[i].start),
                            MinuteOfDay(probe.ranges[i].end), ProbedMinute))

\* C9: isWithinActiveHours is true for the empty list and otherwise exactly
\* when some range whose start and end are both set contains the minute of
\* the day; a range with an unset start or end contains no minute.
C9_ActiveHoursCompleteRanges ==
    probe.fn = "isWithinActiveHours" =>
        /\ probe.value =
             (\/ probe.ranges = <<>>
              \/ \E i \in 1..Len(probe.ranges) :
                    /\ Complete(probe.ranges[i])
                    /\ Contains(MinuteOfDay(probe.ranges[i].start),
                                MinuteOfDay(probe.ranges[i].end), ProbedMinute))
        /\ ActiveHoursExamples

\* a range that ends where it starts has been found to contain a minute
\* before its start
C9_Witness ==
    /\ probe.fn = "isWithinActiveHours"
    /\ probe.ranges = <<TimeRange("t1", "12:30", "12:30")>>
    /\ ProbedAt(2, 0)
    /\ probe.value = TRUE

\* the date key of a date of WorkDates
WrittenDateKey(d) ==
    CASE d.year = 2026 -> "2026-01-01"
      [] d.year = 2025 /\ d.month = 11 -> "2025-12-31"
      [] d.year = 2025 /\ d.month = 8 /\ d.date = 27 -> "2025-09-27"
      [] d.year = 2025 /\ d.month = 8 /\ d.date = 28 -> "2025-09-28"
      [] d.year = 2025 /\ d.month = 8 /\ d.date = 29 -> "2025-09-29"
      [] d.year = 2025 /\ d.month = 8 /\ d.date = 30 -> "2025-09-30"
      [] d.year = 2025 /\ d.month = 9 /\ d.date = 1 -> "2025-10-01"
      [] d.year = 2025 /\ d.month = 9 /\ d.date = 2 -> "2025-10-02"
      [] d.year = 2025 /\ d.month = 9 /\ d.date = 3 -> "2025-10-03"
      [] d.year = 2025 /\ d.month = 9 /\ d.date = 4 -> "2025-10-04"
      [] d.year = 2025 /\ d.month = 9 /\ d.date = 5 -> "2025-10-05"

\* the rule of the work mode alone
WorkModeRule(mode, isBigWeek, weekday) ==
    CASE mode = "everyday" -> TRUE
      [] mode = "weekend" -> weekday \in {0, 6}
      [] mode = "big-small" ->
            IF weekday = 0 THEN FALSE
            ELSE IF weekday = 6 THEN isBigWeek
            ELSE TRUE

\* C10: isWorkDay is false when skipHolidays is set and the date key of today
\* is in the holiday cache, and follows the work mode otherwise; without
\* skipHolidays, or with an empty cache, it follows the work mode alone.
C10_WorkDayRule ==
    probe.fn = "isWorkDay" =>
        LET rule == WorkModeRule(probe.mode, probe.isBigWeek, probe.date.day)
        IN  /\ probe.value =
                 IF probe.skipHolidays /\ WrittenDateKey(probe.date) \in probe.cache
                 THEN FALSE
                 ELSE rule
            /\ (~probe.skipHolidays \/ probe.cache = {}) => probe.value = rule

\* isWorkDay has returned false for a holiday that the work mode alone allows
C10_Witness ==
    /\ probe.fn = "isWorkDay"
    /\ probe.skipHolidays
    /\ probe.mode = "big-small"
    /\ probe.date.day = 3
    /\ WrittenDateKey(probe.date) \in probe.cache
    /\ probe.value = FALSE

\* ------------------------------------------------------------------------
\* Properties of the main status and the calendar gate
\* ------------------------------------------------------------------------
DismissMain == Dismiss("main", TRUE) \/ Dismiss("main", FALSE)

\* the gate as the description states it
GateIsOpen ==
    /\ IsWorkDayValue(settings.workMode, settings.skipHolidays, settings.isBigWeek,
                      date, holidaysCache)
    /\ IsWithinActiveHours(settings.activeHoursRanges, date)

\* the full configured duration of the main reminder, in seconds
FullDuration(s) ==
    IF s.intervalValue = Empty THEN 0
    ELSE s.intervalValue * SecondsPer(s.intervalUnit)

\* C11: a step that takes the main status out of alert_active is a
\* dismiss("main"); no tick and no switch of active-hours gating does it.
C11_AlertActiveOnlyLeftByDismiss ==
    [][(status = "alert_active" /\ status' # "alert_active") => DismissMain]_vars

\* the part of C11 that concerns the tick: no tick takes the status out of
\* alert_active
C11_TickKeepsAlertActive ==
    [][(Tick /\ status = "alert_active") => status' = "alert_active"]_vars

\* C12: a tick with gating enabled and a status other than alert_active
\* leaves the status waiting, endTime null and timeLeft the full duration and
\* raises no main alert when the gate is closed, and turns waiting into
\* running with endTime = now + the full duration when the gate is open.
C12_GateDrivenStatus ==
    [][(Tick /\ settings.activeHoursEnabled /\ status # "alert_active") =>
          IF ~GateIsOpen
          THEN /\ status' = "waiting"
               /\ endTime' = Null
               /\ timeLeft' = FullDuration(settings)
               /\ "main" \notin activeAlerts' \ activeAlerts
               /\ "main" \notin SeqToSet(MessageIds(out', "trigger-notification"))
          ELSE status = "waiting" =>
                  /\ status' = "running"
                  /\ endTime' = clock + FullDuration(settings) * MsPerSecond
                  /\ timeLeft' = FullDuration(settings)]_vars

\* a configured main reminder waits, its countdown cleared, after a tick
\* that found the gate closed
C12_Witness ==
    /\ settings.activeHoursEnabled
    /\ ~GateIsOpen
    /\ MainConfigured(settings)
    /\ status = "waiting"
    /\ endTime = Null
    /\ timeLeft = FullDuration(settings)
    /\ Ticked
    /\ clock > StartClock

\* a configured main reminder counts down again after a tick that found the
\* gate open
C12_WitnessResumed ==
    /\ settings.activeHoursEnabled
    /\ GateIsOpen
    /\ MainConfigured(settings)
    /\ status = "running"
    /\ endTime = clock + FullDuration(settings) * MsPerSecond
    /\ Ticked
    /\ clock > StartClock

\* C13: the status is paused only while gating is disabled, and toggleTimer
\* changes nothing while gating is enabled.
C13_PausedOnlyWithoutGating ==
    /\ [](status = "paused" => ~settings.activeHoursEnabled)
    /\ [][(ToggleTimer /\ settings.activeHoursEnabled) =>
             UNCHANGED <<settings, status, endTime, timeLeft, totalTime,
                         customTimerStates, activeAlerts,
                         notificationSnapshots>>]_vars

\* the main reminder is paused in the middle of a countdown
C13_Witness ==
    /\ status = "paused"
    /\ ~settings.activeHoursEnabled
    /\ MainConfigured(settings)
    /\ endTime = Null
    /\ timeLeft > 0

\* the transitions of the described state machine
DescribedTransitions ==
    {<<"idle", "running">>, <<"running", "alert_active">>,
     <<"alert_active", "running">>, <<"alert_active", "waiting">>,
     <<"running", "paused">>, <<"paused", "running">>,
     <<"running", "waiting">>, <<"idle", "waiting">>, <<"waiting", "running">>}

\* the transitions of switching gating off while waiting and of switching
\* it on, the gate closed, while paused
GateSwitchTransitions == {<<"waiting", "idle">>, <<"paused", "waiting">>}

C15_DismissMainFollowsGate ==
    [][(DismissMain /\ "main" \in activeAlerts) =>
          /\ "main" \notin activeAlerts'
          /\ timeLeft' = FullDuration(settings)
          /\ IF settings.activeHoursEnabled /\ ~GateIsOpen
             THEN status' = "waiting" /\ endTime' = Null
             ELSE /\ status' = "running"
                  /\ endTime' = clock + FullDuration(settings) * MsPerSecond]_vars

\* the main alert was dismissed while the gate was closed
C15_Witness ==
    /\ SeqToSet(MessageIds(out, "dismiss-notification")) = {"main"}
    /\ "main" \notin activeAlerts
    /\ settings.activeHoursEnabled
    /\ ~GateIsOpen
    /\ MainConfigured(settings)
    /\ status = "waiting"
    /\ endTime = Null
    /\ timeLeft = FullDuration(settings)
    /\ clock - StartClock >= MsPerSecond

\* ------------------------------------------------------------------------
\* Properties of dismissing custom reminders
\* ------------------------------------------------------------------------
\* the reminder of the collection whose id is id
ReminderOf(id) == settings.customReminders[FindIndex(settings.customReminders, id)]

\* the OneTime reminder id is spent: its targetDateTime is not after now
Elapsed(id) ==
    /\ ReminderOf(id).type = "onetime"
    /\ ReminderOf(id).targetDateTime # Null
    /\ ReminderOf(id).targetDateTime <= clock

\* C16: a dismiss of a reminder of the collection deletes it exactly when it
\* is a OneTime reminder whose targetDateTime has elapsed; a OneTime reminder
\* whose targetDateTime is in the future and every Interval reminder remain.
C16_DismissDeletesExactlyElapsed ==
    [][\A id \in IdPool, f \in BOOLEAN :
          (Dismiss(id, f) /\ HasReminder(settings.customReminders, id)) =>
             (HasReminder(settings'.customReminders, id) <=> ~Elapsed(id))]_vars

\* what holds of C16: a dismiss deletes every OneTime reminder whose
\* targetDateTime has elapsed, and keeps every Interval reminder and every
\* OneTime reminder whose targetDateTime is more than DismissSlackMs ahead
C16_DismissDeletesElapsedKeepsInterval ==
    [][\A id \in IdPool, f \in BOOLEAN :
          (Dismiss(id, f) /\ HasReminder(settings.customReminders, id)) =>
             /\ Elapsed(id) => ~HasReminder(settings'.customReminders, id)
             /\ ReminderOf(id).type = "interval" =>
                   HasReminder(settings'.customReminders, id)
             /\ (/\ ReminderOf(id).type = "onetime"
                 /\ ReminderOf(id).targetDateTime > clock + DismissSlackMs) =>
                   HasReminder(settings'.customReminders, id)]_vars

\* ------------------------------------------------------------------------
\* Properties of alerts that are being shown
\* ------------------------------------------------------------------------
\* the step is the deferred callback of a tick that recorded id for alerting
\* while the alert of id is still shown
Refire(id) ==
    /\ DeferredStep
    /\ id \in activeAlerts
    /\ id \in SeqToSet(PendingAlerts(pending))

\* C18: firing an id that is already in ActiveAlerts is a no-op: ActiveAlerts
\* and the snapshot stored for the id are unchanged and no notification is
\* sent for the id.
C18_RefireIsNoOp ==
    [][\A id \in IdPool :
          Refire(id) =>
            /\ activeAlerts' = activeAlerts
            /\ notificationSnapshots'[id] = notificationSnapshots[id]
            /\ id \notin SeqToSet(CustomNotifies(out'))]_vars

\* what does hold of such a step: the alert and, the reminder unedited, its
\* snapshot stay as they are
C18_RefireKeepsAlert ==
    [][\A id \in IdPool :
          Refire(id) =>
            /\ id \in activeAlerts'
            /\ notificationSnapshots'[id] = notificationSnapshots[id]]_vars

\* the text getAlertDetails gives for the alert of id
AlertText(id) == GetAlertDetails(notificationSnapshots, settings, id)

\* C19: from the step an id enters ActiveAlerts until it is dismissed, the
\* snapshot stored for the id and the text shown for it are unchanged by every
\* step: edits of the reminder, of the main text and interval, ticks.
C19_SnapshotImmutable ==
    [][\A id \in DismissIds :
          (id \in activeAlerts /\ id \in activeAlerts') =>
            /\ id \in DOMAIN notificationSnapshots
            /\ id \in DOMAIN notificationSnapshots'
            /\ notificationSnapshots'[id] = notificationSnapshots[id]
            /\ AlertText(id)' = AlertText(id)]_vars

\* what does hold: only the deferred callback of a tick that alerts id again
\* changes the snapshot of an alert on display
C19_SnapshotChangedOnlyByRefire ==
    [][\A id \in DismissIds :
          (id \in activeAlerts /\ id \in activeAlerts' /\ ~Refire(id)) =>
            /\ id \in DOMAIN notificationSnapshots
            /\ id \in DOMAIN notificationSnapshots'
            /\ notificationSnapshots'[id] = notificationSnapshots[id]
            /\ AlertText(id)' = AlertText(id)]_vars

\* ------------------------------------------------------------------------
\* Properties of disabled reminders
\* ------------------------------------------------------------------------
\* the ids of the reminders of collection l that are disabled
DisabledIds(l) == {l[i].id : i \in {k \in 1..Len(l) : ~l[k].enabled}}

\* every disabled reminder has a row whose endTime is null
DisabledRowsInert ==
    \A id \in DisabledIds(settings.customReminders) :
        /\ id \in DOMAIN customTimerStates
        /\ customTimerStates[id].endTime = Null

\* C20: a disabled reminder keeps its TimerState row, the row's endTime is
\* null in every state (so across every tick), no notification is sent for
\* the reminder by a step that finds it disabled, and its row goes only in a
\* step that removes the reminder from the collection.
C20_DisabledIsInert ==
    /\ []DisabledRowsInert
    /\ [][\A id \in DisabledIds(settings.customReminders) :
             /\ id \notin SeqToSet(CustomNotifies(out'))
             /\ id \notin DOMAIN customTimerStates' =>
                    id \notin ReminderIds(settings'.customReminders)]_vars

\* what does hold: the same, but for the notifications a tick had recorded
\* before the reminder was disabled and its deferred callback sends after
C20_DisabledIsInertButRecorded ==
    /\ []DisabledRowsInert
    /\ [][\A id \in DisabledIds(settings.customReminders) :
             /\ id \in SeqToSet(CustomNotifies(out')) =>
                    (DeferredStep /\ id \in SeqToSet(PendingAlerts(pending)))
             /\ Tick => id \notin SeqToSet(PendingAlerts(pending'))
             /\ id \notin DOMAIN customTimerStates' =>
                    id \notin ReminderIds(settings'.customReminders)]_vars

\* ------------------------------------------------------------------------
\* The renderer and the main process exchanging dismissal messages: the main
\* process handles what the renderer sends before the renderer's next task
\* ------------------------------------------------------------------------
\* 'dismiss-notification' messages the main process has not handled yet
ToMain == MessageIds(out, "dismiss-notification")

MainIdle == ToMain = <<>>

\* q without its first message on channel
RemoveFirst(q, channel) ==
    LET k == CHOOSE i \in 1..Len(q) :
                /\ q[i].channel = channel
                /\ \A j \in 1..(i - 1) : q[j].channel # channel
    IN  SubSeq(q, 1, k - 1) \o SubSeq(q, k + 1, Len(q))

\* handleWindowDismiss(id) on the windows: the window of id, if there is
\* one, is hidden
HideWindow(windows, id) ==
    IF id \in DOMAIN windows THEN [windows EXCEPT ![id].visible = FALSE]
                             ELSE windows

\* ipcMain.on('dismiss-notification'): handleWindowDismiss(id) hides the
\* window and sends 'notification-closed' to the main window
IpcMainDismiss ==
    /\ ~MainIdle
    /\ notificationWindows' = HideWindow(notificationWindows, Head(ToMain))
    /\ toRenderer' = Append(toRenderer, Head(ToMain))
    /\ out' = RemoveFirst(out, "dismiss-notification")
    /\ UNCHANGED <<engineVars, date, holidayVars, probe>>

\* variant: the listener not telling dismissNotification where the call
\* comes from
HandleNotificationClosedAsLocal ==
    /\ MainIdle
    /\ toRenderer # <<>>
    /\ DismissCall(Head(toRenderer), FALSE)
    /\ toRenderer' = Tail(toRenderer)
    /\ UNCHANGED notificationWindows

\* ipcRenderer.on('notification-closed'): dismissNotification(id, true)
HandleNotificationClosed ==
    /\ MainIdle
    /\ toRenderer # <<>>
    /\ DismissCall(Head(toRenderer), TRUE)
    /\ toRenderer' = Tail(toRenderer)
    /\ UNCHANGED notificationWindows

\* dismissNotification(id) called for an alert on display
DismissShown == MainIdle /\ \E id \in activeAlerts : Dismiss(id, FALSE)

\* saved settings: the main reminder configured, and possibly an Interval
\* reminder due a second after the start
InitIpc ==
    /\ clock = StartClock
    /\ date = CHOOSE d \in EngineDates : d.hours = 10
    /\ settings \in
         {[DefaultSettings EXCEPT !.intervalValue = 1, !.intervalUnit = "seconds",
                                  !.messagePrefix = "sit", !.customReminders = l] :
          l \in {<<>>, <<SavedInterval(1, "seconds", StartClock + MsPerSecond)>>}}
    /\ Mounted

\* the renderer runs its timers and handlers once the main process has
\* handled what was sent to it
NextIpc ==
    \/ MainIdle /\ Pass
    \/ MainIdle /\ Tick
    \/ MainIdle /\ Deferred
    \/ MainIdle /\ ToggleTimer
    \/ MainIdle /\ DeleteReminder
    \/ DismissShown
    \/ IpcMainDismiss
    \/ HandleNotificationClosed

\* weak fairness of the interval callback and of the tick's setTimeout
\* callback, written out with their enabling conditions
FairTick ==
    []<>(~(MainIdle /\ pending = <<>> /\ ~Ticked)) \/ []<><<MainIdle /\ Tick>>_vars

FairDeferred ==
    []<>(~(MainIdle /\ pending # <<>>)) \/ []<><<MainIdle /\ Deferred>>_vars

\* the interval callback, the setTimeout callback and the handlers of
\* messages that have arrived are run by their event loops
SpecIpc ==
    /\ InitIpc
    /\ [][NextIpc]_vars
    /\ FairTick
    /\ FairDeferred
    /\ WF_vars(IpcMainDismiss)
    /\ WF_vars(HandleNotificationClosed)

\* messages on their way, a 'dismiss-notification' counted twice because it
\* is answered by a 'notification-closed'
InFlight == 2 * Len(ToMain) + Len(toRenderer)

\* C17: a dismiss from the notification surface sends no dismiss message and
\* a dismiss called locally sends exactly one, for its id; handling a
\* message leaves fewer messages on their way, and eventually no
\* 'dismiss-notification' and no 'notification-closed' is on its way.
C17_NoDismissEcho ==
    /\ [][\A id \in DismissIds :
            /\ DismissCall(id, TRUE) => MainIdle'
            /\ DismissCall(id, FALSE) => ToMain' = <<id>>]_vars
    /\ [][HandleNotificationClosed => MainIdle']_vars
    /\ [][(IpcMainDismiss \/ HandleNotificationClosed) => InFlight' < InFlight]_vars
    /\ <>[](MainIdle /\ toRenderer = <<>>)

\* the main alert has been dismissed locally and the main process has
\* answered: its 'notification-closed' is on its way to the renderer
C17_Witness ==
    /\ toRenderer = <<"main">>
    /\ MainIdle
    /\ "main" \notin activeAlerts
    /\ status = "running"

\* ------------------------------------------------------------------------
\* Properties of the holiday data
\* ------------------------------------------------------------------------
\* the year the outstanding fetchSpecificYear is for
JobYear == IF fetchJob.stage = "current" THEN fetchJob.year ELSE fetchJob.year + 1

\* C21: a year enters fetchedYears only in the step in which a fetch for that
\* year ends successfully with a day list, whose off-days are then in the
\* cache; a fetch that fails or brings no day list leaves the cache and
\* fetchedYears unchanged; neither set ever loses an element; and an
\* isWorkDay() call that finds the year missing and no update outstanding
\* starts a fetch of it again.
C21_FetchMarksSuccessOnly ==
    /\ [][\A y \in fetchedYears' \ fetchedYears :
             /\ FetchSettled("ok")
             /\ y = JobYear
             /\ OffDays(y) \subseteq holidaysCache']_vars
    /\ [][(FetchSettled("failed") \/ FetchSettled("malformed")) =>
             UNCHANGED <<holidaysCache, fetchedYears>>]_vars
    /\ [][/\ holidaysCache \subseteq holidaysCache'
          /\ fetchedYears \subseteq fetchedYears']_vars
    /\ [][(CallIsWorkDay /\ date.year \notin fetchedYears /\ ~isFetching) =>
             /\ isFetching'
             /\ fetchJob' = [stage |-> "current", year |-> date.year,
                             month |-> date.month]]_vars

\* the update started at the mount has ended, all its fetches without data
C21_Witness ==
    /\ fetchedYears = {}
    /\ holidaysCache = {}
    /\ ~isFetching
    /\ fetchJob = IdleJob

\* the outstanding fetch is the last of its update
LastFetch == ~(fetchJob.stage = "current" /\ fetchJob.month = 11)

\* C22: at most one holiday update is outstanding: the flag is set exactly
\* while an update is, a call of updateHolidays made while one is outstanding
\* changes nothing and starts no fetch, the step that ends the last fetch of
\* an update clears the flag whatever the outcome, and a set flag is always
\* cleared in the end.
C22_OneUpdateInFlight ==
    /\ [](isFetching <=> fetchJob.stage # "idle")
    /\ [][(CallIsWorkDay /\ isFetching) => UNCHANGED holidayVars]_vars
    /\ [][\A outcome \in {"ok", "malformed", "failed"} :
             (FetchSettled(outcome) /\ LastFetch) =>
                (~isFetching' /\ fetchJob' = IdleJob)]_vars
    /\ (isFetching ~> ~isFetching)

\* isWorkDay() has just been called in a year whose data is missing, and the
\* update outstanding is still the one started in the year before
C22_Witness ==
    /\ probe.fn = "isWorkDay"
    /\ probe.date = date
    /\ date.year \notin fetchedYears
    /\ isFetching
    /\ fetchJob.year # date.year

\* an update has ended with the flag cleared, its fetches failed
C22_WitnessCleared ==
    /\ ~isFetching
    /\ fetchedYears = {}
    /\ probe.fn = "isWorkDay"

\* ------------------------------------------------------------------------
\* Properties of the reminder collection under edits and rescheduling
\* ------------------------------------------------------------------------
\* the reminder of collection l with this id
Lookup(l, id) == l[FindIndex(l, id)]

ReminderFields ==
    {"title", "type", "enabled", "intervalValue", "intervalUnit",
     "targetDateTime", "nextTriggerTime"}

\* the collection the tick of the callback about to run has read
AtTick == Head(pending).reminders

\* the changes of the engine are in the collection after the callback
EngineChangesKept ==
    /\ \A k \in 1..Len(PendingUpdates(pending)) :
          LET u == PendingUpdates(pending)[k]
          IN  HasReminder(settings'.customReminders, u.id) =>
                Lookup(settings'.customReminders, u.id).nextTriggerTime = u.nextTime
    /\ \A id \in SeqToSet(PendingRemoves(pending)) :
          ~HasReminder(settings'.customReminders, id)

\* the changes a handler has made since the tick, in the fields fs, are in the
\* collection after the callback: a reminder added or changed is there with
\* the fields the handler has given it, a reminder deleted is not
UserChangesKept(fs) ==
    /\ \A id \in ReminderIds(settings.customReminders) :
          (~HasReminder(AtTick, id)
           \/ Lookup(AtTick, id) # Lookup(settings.customReminders, id)) =>
             /\ HasReminder(settings'.customReminders, id)
             /\ \A f \in fs :
                   (~HasReminder(AtTick, id)
                    \/ Lookup(AtTick, id)[f] # Lookup(settings.customReminders, id)[f]) =>
                      Lookup(settings'.customReminders, id)[f] =
                         Lookup(settings.customReminders, id)[f]
    /\ \A id \in ReminderIds(AtTick) \ ReminderIds(settings.customReminders) :
          ~HasReminder(settings'.customReminders, id)

\* C23: when a handler has added, edited, deleted or toggled a reminder
\* between a tick and the tick's deferred callback, the collection after the
\* callback holds the change of the handler and the changes of the engine.
C23_NoLostUpdate ==
    [][DeferredStep => (EngineChangesKept /\ UserChangesKept(ReminderFields))]_vars

\* what does hold of an edit: the changes of the engine are kept, and those
\* of the handler in every field but nextTriggerTime
C23_MergedButNextTriggerTime ==
    [][DeferredStep =>
          (EngineChangesKept /\ UserChangesKept(ReminderFields \ {"nextTriggerTime"}))]_vars

\* ------------------------------------------------------------------------
\* Properties of rescheduling
\* ------------------------------------------------------------------------
\* n is the smallest of from + P, from + 2P, ... that is more than a second
\* after now
SmallestAhead(n, from, P, now) ==
    /\ n > from
    /\ (n - from) % P = 0
    /\ n > now + RescheduleBufferMs
    /\ n - P <= now + RescheduleBufferMs

\* the previous endTime of r lies more than a hundred periods before now
StaleAnchor(r) == customTimerStates[r.id].endTime < clock - TotalMs(r) * StaleAnchorPeriods

C24_WitnessStale ==
    /\ Len(settings.customReminders) = 1
    /\ Len(PendingUpdates(pending)) = 1
    /\ LET r == settings.customReminders[1]
           n == PendingUpdates(pending)[1].nextTime
       IN  /\ TotalMs(r) > 0
           /\ n - r.nextTriggerTime >= StaleAnchorPeriods * TotalMs(r)
           /\ (n - r.nextTriggerTime) % TotalMs(r) # 0

\* ------------------------------------------------------------------------
\* Properties of the tick after a resume and of overdue deadlines
\* ------------------------------------------------------------------------
\* the tick that runs now is less than ten seconds after the resume message
InGrace == clock - lastResumeTime < ResumeGraceMs

\* the tick that runs now follows the one before by a second or less
NormalDelta == clock - lastTick <= SleepThresholdMs

DueReminders == SelectSeq(settings.customReminders, Due)

\* the tick running now alerts none of the reminders due: it reschedules
\* those of type Interval and records those of type OneTime for removal
SkipsDue ==
    /\ PendingAlerts(pending') = <<>>
    /\ activeAlerts' = activeAlerts
    /\ \A i \in 1..Len(DueReminders) :
          LET r == DueReminders[i]
          IN  IF r.type = "interval"
              THEN /\ customTimerStates'[r.id].endTime > clock + RescheduleBufferMs
                   /\ \E k \in 1..Len(PendingUpdates(pending')) :
                         PendingUpdates(pending')[k] =
                            [id |-> r.id,
                             nextTime |-> customTimerStates'[r.id].endTime]
              ELSE /\ r.id \in SeqToSet(PendingRemoves(pending'))
                   /\ customTimerStates'[r.id].endTime = Null

\* C25: a tick less than ten seconds after the resume message alerts nothing,
\* whatever its delta: it reschedules the Interval reminders due and records
\* the OneTime reminders due for removal, which its callback removes; a tick
\* ten seconds or more after the message whose delta is a second or less
\* alerts every reminder due that is not overdue.
C25_ResumeGrace ==
    /\ [][(Tick /\ InGrace) => SkipsDue]_vars
    /\ [][(DeferredStep /\ PendingAlerts(pending) = <<>>) =>
             /\ CustomNotifies(out') = <<>>
             /\ \A id \in SeqToSet(PendingRemoves(pending)) :
                   ~HasReminder(settings'.customReminders, id)]_vars
    /\ [][(Tick /\ ~InGrace /\ NormalDelta) =>
             PendingAlerts(pending') =
                [i \in 1..Len(SelectSeq(DueReminders, LAMBDA r : ~FlaggedOverdue(r)))
                   |-> SelectSeq(DueReminders, LAMBDA r : ~FlaggedOverdue(r))[i].id]]_vars

\* nine and a half seconds after the resume message a tick has passed over the
\* Interval reminder's deadline without alerting
C25_Witness ==
    /\ lastResumeTime = ResumeStartClock + SleepThresholdMs + Quantum
    /\ clock = StartClock + MsPerSecond
    /\ Ticked
    /\ PendingAlerts(pending) = <<>>
    /\ Len(PendingUpdates(pending)) = 1
    /\ activeAlerts = {}

\* ten seconds after the resume message a tick has recorded the OneTime
\* reminder for alerting
C25_WitnessAfterGrace ==
    /\ lastResumeTime > 0
    /\ clock - lastResumeTime = ResumeGraceMs
    /\ Ticked
    /\ "r2" \in SeqToSet(PendingAlerts(pending))

\* the deadline of r lies more than ms milliseconds before now
OverdueBy(r, ms) == clock - customTimerStates[r.id].endTime > ms

\* the tick running now does not alert r, due: it reschedules r if r is of
\* type Interval and records r for removal if it is of type OneTime
SkipsOne(r) ==
    /\ r.id \notin SeqToSet(PendingAlerts(pending'))
    /\ IF r.type = "interval"
       THEN customTimerStates'[r.id].endTime > clock + RescheduleBufferMs
       ELSE /\ r.id \in SeqToSet(PendingRemoves(pending'))
            /\ customTimerStates'[r.id].endTime = Null

\* on every tick a reminder due whose deadline lies more than ms before now
\* is skipped, and on a tick that is not sleep-flagged a reminder due whose
\* deadline lies ms or less before now is alerted
OverdueRule(ms) ==
    Tick =>
       \A i \in 1..Len(DueReminders) :
          LET r == DueReminders[i]
          IN  /\ OverdueBy(r, ms) => SkipsOne(r)
              /\ (~OverdueBy(r, ms) /\ ~TickSleepFlagged) =>
                    r.id \in SeqToSet(PendingAlerts(pending'))

\* C26 as stated: the tolerance is 3000 ms.
C26_OverdueThreeSeconds == [][OverdueRule(CustomOverdueSec * MsPerSecond)]_vars

\* C26: the deadline is compared in whole seconds, rounded up, so that a
\* reminder is skipped from 4000 ms behind and alerted up to 3999 ms behind.
C26_OverdueFourSeconds ==
    [][OverdueRule((CustomOverdueSec + 1) * MsPerSecond - 1)]_vars

\* a tick has passed over the saved reminder's deadline, four seconds or more
\* behind, without alerting, and no resume message has ever arrived
C26_Witness ==
    /\ Ticked
    /\ lastResumeTime = 0
    /\ PendingAlerts(pending) = <<>>
    /\ \E k \in 1..Len(PendingUpdates(pending)) :
          LET u == PendingUpdates(pending)[k]
          IN  /\ HasReminder(settings.customReminders, u.id)
              /\ clock - Lookup(settings.customReminders, u.id).nextTriggerTime
                    >= (CustomOverdueSec + 1) * MsPerSecond

\* the main period in milliseconds
MainPeriodMs == CalculateTotalSeconds(settings) * MsPerSecond

\* the tick running now finds the main countdown expired and is sleep-flagged
\* or finds it heavily overdue
MainDueSkipped ==
    /\ Tick
    /\ ShouldTickMainTimer(AppState, date, holidaysCache)
    /\ MainConfigured(settings)
    /\ Truthy(endTime)
    /\ endTime <= clock
    /\ \/ TickSleepFlagged
       \/ clock - endTime >= (MainOverdueSec + 1) * MsPerSecond

\* C27 as stated: such a tick alerts nothing and gives the main countdown the
\* anchor-based endTime: the smallest previous endTime + k periods, k >= 1,
\* that is more than a second after now.
C27_MainRescheduledFromAnchor ==
    [][MainDueSkipped =>
          /\ activeAlerts' = activeAlerts
          /\ status' = "running"
          /\ SmallestAhead(endTime', endTime, MainPeriodMs, clock)]_vars

\* what does hold: such a tick alerts nothing and restarts the main countdown
\* from now, one full period ahead
C27_MainRestartedFromNow ==
    [][MainDueSkipped =>
          /\ activeAlerts' = activeAlerts
          /\ status' = "running"
          /\ endTime' = clock + MainPeriodMs
          /\ timeLeft' = CalculateTotalSeconds(settings)]_vars

\* ------------------------------------------------------------------------
\* Properties of enabling a reminder again
\* ------------------------------------------------------------------------
\* the step enables the disabled Interval reminder r
Reenables(r) ==
    /\ ~r.enabled
    /\ r.type = "interval"
    /\ HasReminder(settings'.customReminders, r.id)
    /\ Lookup(settings'.customReminders, r.id).enabled

\* C28 as stated: a disabled Interval reminder that is enabled again counts
\* down from now, one full period.
C28_ReenableFromZero ==
    [][\A i \in 1..Len(settings.customReminders) :
          LET r == settings.customReminders[i]
          IN  Reenables(r) =>
                customTimerStates'[r.id] =
                   [timeLeft |-> TotalMs(r) \div MsPerSecond,
                    endTime |-> clock + TotalMs(r)]]_vars

\* what does hold: it counts down to the nextTriggerTime it has kept, and
\* from now only when it has kept none
C28_ReenableFromKeptDeadline ==
    [][\A i \in 1..Len(settings.customReminders) :
          LET r == settings.customReminders[i]
          IN  Reenables(r) =>
                customTimerStates'[r.id].endTime =
                   IF Truthy(r.nextTriggerTime) THEN r.nextTriggerTime
                   ELSE clock + TotalMs(r)]_vars

\* ------------------------------------------------------------------------
\* Properties of custom reminders under the calendar gate
\* ------------------------------------------------------------------------
\* the row the tick that runs now leaves for reminder r, from the row it
\* finds, the time and the sleep flag alone
RowAfterTick(r) ==
    LET st == customTimerStates[r.id]
    IN  IF ~Due(r)
        THEN IF r.enabled /\ Truthy(st.endTime)
             THEN [st EXCEPT !.timeLeft = CeilDiv(st.endTime - clock, MsPerSecond)]
             ELSE st
        ELSE IF r.type = "onetime"
        THEN [timeLeft |-> 0, endTime |-> Null]
        ELSE LET n == CHOOSE n \in (clock + 1)..(clock + RescheduleBufferMs + TotalMs(r)) :
                         SmallestAhead(n, IF StaleAnchor(r) THEN clock ELSE st.endTime,
                                       TotalMs(r), clock)
             IN  [timeLeft |-> CeilDiv(n - clock, MsPerSecond), endTime |-> n]

\* C29: whatever the gate, activeHoursEnabled and the main status are, a tick
\* leaves every custom reminder the row its countdown calls for and records
\* for alerting the reminders due (not sleep-flagged, not overdue), the
\* tick's callback sends a notification for each of them, and the rows change
\* in no step but a tick or a change of the collection.
C29_CustomIndependentOfGate ==
    /\ [][Tick =>
             /\ PendingAlerts(pending') = ExpiriesToAlert
             /\ DOMAIN customTimerStates' = DOMAIN customTimerStates
             /\ \A i \in 1..Len(settings.customReminders) :
                   LET r == settings.customReminders[i]
                   IN  customTimerStates'[r.id] = RowAfterTick(r)]_vars
    /\ [][DeferredStep => CustomNotifies(out') = PendingAlerts(pending)]_vars
    /\ [][customTimerStates' # customTimerStates =>
             (Tick \/ settings'.customReminders # settings.customReminders)]_vars

\* the notification of a custom reminder has just been sent while the main
\* reminder waits under a closed gate
C29_Witness ==
    /\ settings.activeHoursEnabled
    /\ ~GateIsOpen
    /\ status = "waiting"
    /\ Len(CustomNotifies(out)) > 0

\* the same while the main reminder is paused
C29_WitnessPaused ==
    /\ status = "paused"
    /\ Len(CustomNotifies(out)) > 0

\* ------------------------------------------------------------------------
\* Reminders read from localStorage, and the reschedule loop of the tick one
\* iteration at a time
\* ------------------------------------------------------------------------
\* intervalValue: r.intervalValue || 30
DefaultReminderValue == 30

\* customReminders.map of the settings initialiser
LoadReminder(r, now) ==
    LET type == IF r.type = "" THEN "interval" ELSE r.type
        value == IF Truthy(r.intervalValue) THEN r.intervalValue
                 ELSE DefaultReminderValue
        unit == IF r.intervalUnit = "" THEN "minutes" ELSE r.intervalUnit
    IN  [r EXCEPT !.type = type, !.intervalValue = value, !.intervalUnit = unit,
                  !.nextTriggerTime =
                      IF type = "interval" /\ r.enabled /\ ~Truthy(r.nextTriggerTime)
                      THEN now + value * UnitMultiplier(unit) * MsPerSecond
                      ELSE r.nextTriggerTime]

\* intervalValue of a stored reminder: missing, zero, negative, positive
StoredValues == {Null, 0, -3, 1, 2}
\* intervalUnit of a stored reminder: missing or empty (""), or a unit
StoredUnits == {"", "seconds"}
StoredTriggerTimes == {Null, StartClock + MsPerSecond}

\* iterations of the loop followed before the model stops following it
MaxIterations == 8

InitStored ==
    /\ clock = StartClock
    /\ date = CHOOSE d \in EngineDates : d.hours = 10
    /\ settings \in {[DefaultSettings EXCEPT !.customReminders =
                        <<LoadReminder(SavedInterval(v, u, t), clock)>>] :
                     v \in StoredValues, u \in StoredUnits, t \in StoredTriggerTimes}
    /\ Mounted

\* an Interval reminder the tick that runs now reschedules
DueInterval ==
    \E i \in 1..Len(settings.customReminders) :
       settings.customReminders[i].type = "interval" /\ Due(settings.customReminders[i])

\* the tick that runs now is inside while (nextTime <= now + 1000)
Rescheduling == probe.fn = "reschedule" /\ probe.now = clock /\ DueInterval

\* the tick reaches the loop: let nextTime = st.endTime || now;
\* if (nextTime < now - (totalMs * 100)) nextTime = now
RescheduleEnter ==
    /\ pending = <<>>
    /\ DueInterval
    /\ ~Rescheduling
    /\ LET r == settings.customReminders[
                   CHOOSE i \in 1..Len(settings.customReminders) :
                      /\ settings.customReminders[i].type = "interval"
                      /\ Due(settings.customReminders[i])
                      /\ \A j \in 1..(i - 1) :
                            ~(/\ settings.customReminders[j].type = "interval"
                              /\ Due(settings.customReminders[j]))]
           prevEnd == customTimerStates[r.id].endTime
       IN  probe' = [fn |-> "reschedule", now |-> clock, totalMs |-> TotalMs(r),
                     nextTime |-> IF prevEnd < clock - TotalMs(r) * StaleAnchorPeriods
                                  THEN clock ELSE prevEnd,
                     iterations |-> 0]
    /\ UNCHANGED <<notificationWindows, toRenderer, engineVars, date, out, holidayVars>>

\* one iteration: nextTime += totalMs
RescheduleIterate ==
    /\ Rescheduling
    /\ probe.nextTime <= probe.now + RescheduleBufferMs
    /\ probe.iterations < MaxIterations
    /\ probe' = [probe EXCEPT !.nextTime = @ + probe.totalMs, !.iterations = @ + 1]
    /\ UNCHANGED <<notificationWindows, toRenderer, engineVars, date, out, holidayVars>>

\* the loop's condition is false: the tick goes on
LoopLeft == Rescheduling /\ probe.nextTime > probe.now + RescheduleBufferMs

\* a provider constructed over stored settings; a tick with a reminder to
\* reschedule is followed through the loop before it completes
SpecStored ==
    InitStored /\ [][\/ ~Rescheduling /\ Pass
                     \/ ~DueInterval /\ Tick
                     \/ RescheduleEnter
                     \/ RescheduleIterate
                     \/ LoopLeft /\ Tick
                     \/ Deferred]_vars

\* ------------------------------------------------------------------------
\* Properties of the reschedule loop
\* ------------------------------------------------------------------------
\* C30: for every enabled Interval reminder the collection can hold, each
\* iteration of the reschedule loop strictly increases the candidate endTime,
\* and the loop is left after a bounded number of iterations.
C30_LoopAdvances ==
    /\ [][RescheduleIterate => probe'.nextTime > probe.nextTime]_vars
    /\ [](Rescheduling => (probe.iterations < MaxIterations \/ LoopLeft))

\* what holds: the initialiser leaves no Interval reminder without a value or
\* with the value zero, a reminder of positive period advances on every
\* iteration, and the tick that leaves the loop stores the loop's result
C30_LoopAdvancesForPositivePeriods ==
    /\ [](\A i \in 1..Len(settings.customReminders) :
             Truthy(settings.customReminders[i].intervalValue))
    /\ [][(RescheduleIterate /\ probe.totalMs > 0)
             => probe'.nextTime > probe.nextTime]_vars
    /\ [](Rescheduling /\ probe.totalMs > 0 => probe.iterations < MaxIterations)
    /\ [][(LoopLeft /\ Tick) =>
             \E id \in DOMAIN customTimerStates' :
                customTimerStates'[id].endTime = probe.nextTime]_vars

\* the loop is still running after MaxIterations iterations, its candidate
\* further from the exit than when it started
C30_LoopStuck ==
    /\ Rescheduling
    /\ probe.iterations = MaxIterations
    /\ probe.nextTime <= probe.now + RescheduleBufferMs
    /\ probe.totalMs <= 0

\* ------------------------------------------------------------------------
\* Properties of the TimerState rows
\* ------------------------------------------------------------------------
\* the row the sync effect gives reminder r at time now
DefinedRow(r, now) ==
    IF r.enabled THEN InitialTimerState(r, now) ELSE [timeLeft |-> 0, endTime |-> Null]

\* reminder r differs from p in a field the sync effect compares
ConfigChanged(p, r) ==
    \/ p.intervalValue # r.intervalValue
    \/ p.intervalUnit # r.intervalUnit
    \/ p.targetDateTime # r.targetDateTime
    \/ p.type # r.type
    \/ p.nextTriggerTime # r.nextTriggerTime

\* C31: the keys of the TimerState rows are ids of the collection, every
\* enabled reminder has a row, and in a step that changes a reminder's
\* interval value, unit, target time, type or nextTriggerTime the reminder's
\* row is computed anew from its definition.
C31_RowLifecycle ==
    /\ [](DOMAIN customTimerStates \subseteq ReminderIds(settings.customReminders))
    /\ [](\A i \in 1..Len(settings.customReminders) :
             settings.customReminders[i].enabled
                => settings.customReminders[i].id \in DOMAIN customTimerStates)
    /\ [][\A i \in 1..Len(settings.customReminders),
            j \in 1..Len(settings'.customReminders) :
             LET p == settings.customReminders[i]
                 r == settings'.customReminders[j]
             IN  (p.id = r.id /\ ConfigChanged(p, r) /\ r.id \in DOMAIN customTimerStates')
                    => customTimerStates'[r.id] = DefinedRow(r, clock')]_vars

\* a reminder edited to the period of two seconds counts down from the edit,
\* and the row of a reminder deleted before is gone
C31_Witness ==
    /\ Len(settings.customReminders) = 1
    /\ LET r == settings.customReminders[1]
       IN  /\ r.title \in NewTitles
           /\ r.type = "interval"
           /\ r.intervalValue = 2
           /\ DOMAIN customTimerStates = {r.id}
           /\ customTimerStates[r.id].endTime = clock + 2 * MsPerSecond
    /\ clock > StartClock

\* C32: every row has timeLeft >= 0, and timeLeft = 0 when its endTime is
\* null; the row a tick leaves for an Interval reminder it reschedules has
\* timeLeft = ceil((endTime - now) / 1000), which is at least 2.
C32_RowValues ==
    /\ [](\A id \in DOMAIN customTimerStates :
             /\ customTimerStates[id].timeLeft >= 0
             /\ customTimerStates[id].endTime = Null
                   => customTimerStates[id].timeLeft = 0)
    /\ [][Tick =>
             \A i \in 1..Len(settings.customReminders) :
                LET r == settings.customReminders[i]
                IN  (r.type = "interval" /\ Due(r)) =>
                       /\ customTimerStates'[r.id].endTime # Null
                       /\ customTimerStates'[r.id].timeLeft =
                             CeilDiv(customTimerStates'[r.id].endTime - clock,
                                     MsPerSecond)
                       /\ customTimerStates'[r.id].timeLeft >= 2]_vars

\* a tick has just rescheduled an Interval reminder to a second and a half
\* from now: timeLeft is 2
C32_Witness ==
    /\ Ticked
    /\ \E i \in 1..Len(settings.customReminders) :
          LET r == settings.customReminders[i]
          IN  /\ r.type = "interval"
              /\ r.enabled
              /\ customTimerStates[r.id] =
                    [timeLeft |-> 2, endTime |-> clock + RescheduleBufferMs + Quantum]
              /\ pending # <<>>
              /\ \E k \in 1..Len(Head(pending).updates) :
                    Head(pending).updates[k].id = r.id

\* a OneTime reminder has fired: its row is {0, null}
C32_WitnessFired ==
    \E i \in 1..Len(settings.customReminders) :
       LET r == settings.customReminders[i]
       IN  /\ r.type = "onetime"
           /\ r.enabled
           /\ customTimerStates[r.id] = [timeLeft |-> 0, endTime |-> Null]

\* ------------------------------------------------------------------------
\* Properties of the order of computation and side effects in a tick
\* ------------------------------------------------------------------------
\* the tick that runs now has left every due reminder's row cleared or ahead
DueRowsCommitted ==
    \A i \in 1..Len(settings.customReminders) :
       LET r == settings.customReminders[i]
       IN  Due(r) => \/ customTimerStates'[r.id].endTime = Null
                     \/ customTimerStates'[r.id].endTime > clock

\* C33: the synchronous pass of a tick commits the rows of the custom
\* reminders and emits nothing: it sends no notification, custom or main,
\* adds no alert and leaves the reminder collection as it is; alerts and
\* collection changes come with the callback that runs after the pass.
C33_SideEffectsDeferred ==
    [][Tick => /\ DueRowsCommitted
               /\ MessageIds(out', "trigger-notification") = <<>>
               /\ activeAlerts' = activeAlerts
               /\ settings'.customReminders = settings.customReminders]_vars

\* what holds: the same for the custom reminders alone
C33_CustomSideEffectsDeferred ==
    [][Tick => /\ DueRowsCommitted
               /\ CustomNotifies(out') = <<>>
               /\ activeAlerts' \ {"main"} = activeAlerts \ {"main"}
               /\ settings'.customReminders = settings.customReminders]_vars

\* the main notification sent within the pass of a tick whose callback, with
\* the alert of a custom reminder, has not run yet
C33_MainAlertInPass ==
    /\ MessageIds(out, "trigger-notification") = <<"main">>
    /\ Len(PendingAlerts(pending)) > 0
    /\ Ticked

\* ------------------------------------------------------------------------
\* Properties of the set of active alerts
\* ------------------------------------------------------------------------
\* C34: the main status is alert_active exactly when "main" is in
\* ActiveAlerts.
C34_AlertActiveIffMainAlerted ==
    [](status = "alert_active" <=> "main" \in activeAlerts)

\* what holds: a status of alert_active comes with "main" in ActiveAlerts
C34_AlertActiveHasMainAlert ==
    [](status = "alert_active" => "main" \in activeAlerts)

\* the main alert is still shown and the status has left alert_active
C34_MainAlertedNotAlertActive ==
    /\ "main" \in activeAlerts
    /\ "main" \in DOMAIN notificationSnapshots
    /\ status # "alert_active"

\* C35: every id in ActiveAlerts other than "main", and every key of
\* NotificationSnapshots other than "main", is the id of a reminder in the
\* collection.
C35_AlertsBelongToReminders ==
    /\ [](\A id \in activeAlerts \ {"main"} :
             HasReminder(settings.customReminders, id))
    /\ [](\A id \in DOMAIN notificationSnapshots \ {"main"} :
             HasReminder(settings.customReminders, id))

\* the callback of a tick has raised the alert of a reminder deleted since
\* the tick, and the alert has been dismissed at once
C35_Witness ==
    \E id \in IdPool :
       /\ ~HasReminder(settings.customReminders, id)
       /\ MessageIds(out, "trigger-notification") = <<id>>
       /\ MessageIds(out, "dismiss-notification") = <<id>>
       /\ id \notin activeAlerts
       /\ id \notin DOMAIN notificationSnapshots

\* ------------------------------------------------------------------------
\* Properties of the persisted nextTriggerTime
\* ------------------------------------------------------------------------
\* reminder r is an enabled Interval reminder that carries a nextTriggerTime
Scheduled(r) == r.type = "interval" /\ r.enabled /\ Truthy(r.nextTriggerTime)

\* the nextTime the callback waiting in q holds for id, or Null
QueuedNextTime(q, id) ==
    LET u == SelectSeq(PendingUpdates(q), LAMBDA x : x.id = id)
    IN  IF u = <<>> THEN Null ELSE u[1].nextTime

\* C36: once the callback of the last tick has run, the row of every enabled
\* Interval reminder that carries a nextTriggerTime has that value as its
\* endTime; a tick that reschedules a reminder gives the row the endTime it
\* hands to its callback, and the callback stores that value as the
\* reminder's nextTriggerTime.
C36_RowMatchesPersisted ==
    /\ [](pending = <<>> =>
             \A i \in 1..Len(settings.customReminders) :
                LET r == settings.customReminders[i]
                IN  Scheduled(r) => customTimerStates[r.id].endTime = r.nextTriggerTime)
    /\ [][Tick =>
             \A i \in 1..Len(settings.customReminders) :
                LET r == settings.customReminders[i]
                IN  (r.type = "interval" /\ Due(r)) =>
                       QueuedNextTime(pending', r.id) = customTimerStates'[r.id].endTime]_vars
    /\ [][DeferredStep =>
             \A i \in 1..Len(settings'.customReminders) :
                LET r == settings'.customReminders[i]
                IN  QueuedNextTime(pending, r.id) # Null =>
                       r.nextTriggerTime = QueuedNextTime(pending, r.id)]_vars

\* the callback has just stored the endTime of a reschedule that skipped a
\* period
C36_Witness ==
    /\ pending = <<>>
    /\ Len(CustomNotifies(out)) > 0
    /\ \E i \in 1..Len(settings.customReminders) :
          LET r == settings.customReminders[i]
          IN  /\ Scheduled(r)
              /\ r.intervalValue = 1
              /\ r.nextTriggerTime = clock + RescheduleBufferMs + Quantum
              /\ customTimerStates[r.id].endTime = r.nextTriggerTime

\* ------------------------------------------------------------------------
\* Properties of alerting at most once
\* ------------------------------------------------------------------------
\* OneTime reminder p has had its time: its target has passed and its row's
\* endTime is cleared
Spent(p) ==
    /\ p.type = "onetime"
    /\ Truthy(p.targetDateTime)
    /\ p.targetDateTime <= clock
    /\ p.id \in DOMAIN customTimerStates
    /\ customTimerStates[p.id].endTime = Null

\* ids of the OneTime reminders in l
OneTimeIds(l) == {l[i].id : i \in {k \in 1..Len(l) : l[k].type = "onetime"}}

\* C37: a OneTime reminder alerts at most once: a tick records it for
\* alerting only when it finds its deadline set, and clears the deadline; the
\* callback of that tick sends its one notification; and while the reminder
\* stays in the collection with its target time, no step - a tick, a change
\* of another reminder, a persisted reschedule, a toggle - sets the cleared
\* deadline again.
C37_OneTimeAlertsOnce ==
    /\ [][Tick =>
             \A id \in SeqToSet(PendingAlerts(pending'))
                          \cap OneTimeIds(settings.customReminders) :
                /\ Truthy(customTimerStates[id].endTime)
                /\ customTimerStates'[id].endTime = Null]_vars
    /\ [][\A id \in OneTimeIds(settings.customReminders) :
             LET sent == SelectSeq(CustomNotifies(out'), LAMBDA x : x = id)
             IN  /\ Len(sent) <= 1
                 /\ Len(sent) = 1 =>
                       /\ DeferredStep
                       /\ id \in SeqToSet(PendingAlerts(pending))
                       /\ id \notin SeqToSet(PendingAlerts(pending'))]_vars
    /\ [][\A i \in 1..Len(settings.customReminders),
            j \in 1..Len(settings'.customReminders) :
             LET p == settings.customReminders[i]
                 r == settings'.customReminders[j]
             IN  (Spent(p) /\ r.id = p.id /\ r.type = "onetime"
                     /\ r.targetDateTime = p.targetDateTime)
                    => /\ r.id \in DOMAIN customTimerStates'
                       /\ customTimerStates'[r.id].endTime = Null]_vars

\* a OneTime reminder has alerted and its alert is shown, a second or more
\* after its target
C37_Witness ==
    /\ Ticked
    /\ pending = <<>>
    /\ \E i \in 1..Len(settings.customReminders) :
          LET r == settings.customReminders[i]
          IN  /\ Spent(r)
              /\ r.enabled
              /\ r.id \in activeAlerts
              /\ clock >= r.targetDateTime + MsPerSecond

\* ids of the notifications sent in q for the main reminder
MainNotifies(q) ==
    SelectSeq(MessageIds(q, "trigger-notification"), LAMBDA id : id = "main")

\* C38: while "main" is in ActiveAlerts no step sends a notification for
\* the main reminder, and the step that puts "main" into ActiveAlerts sends
\* exactly one.
C38_MainNotifiedOncePerEpisode ==
    [][/\ "main" \in activeAlerts => MainNotifies(out') = <<>>
       /\ "main" \in activeAlerts' \ activeAlerts => MainNotifies(out') = <<"main">>
       /\ Len(MainNotifies(out')) <= 1]_vars

\* the main alert is shown, the countdown was started again by a switch of
\* the gating and has run out, and the tick has left it at that
C38_Witness ==
    /\ "main" \in activeAlerts
    /\ status = "running"
    /\ MainConfigured(settings)
    /\ Truthy(endTime)
    /\ endTime < clock
    /\ timeLeft = 0
    /\ Ticked
    /\ out = <<>>

\* ------------------------------------------------------------------------
\* The notification windows of the main process: the main process handles
\* the messages of the renderer in the order they were sent, before the
\* renderer's next task; its answers reach the renderer at any later time
\* ------------------------------------------------------------------------
\* createOrUpdateNotificationWindow(id, data) on the windows: the window of
\* id is shown, or a new one is created hidden (show: false) with a
\* 'ready-to-show' listener still to run
CreateOrUpdateNotificationWindow(windows, id) ==
    IF id \in DOMAIN windows
    THEN [windows EXCEPT ![id].visible = TRUE]
    ELSE [k \in DOMAIN windows \cup {id} |->
            IF k = id THEN [visible |-> FALSE, ready |-> FALSE] ELSE windows[k]]

\* ipcMain.on('trigger-notification')
IpcMainTrigger ==
    /\ out # <<>>
    /\ Head(out).channel = "trigger-notification"
    /\ notificationWindows' =
          CreateOrUpdateNotificationWindow(notificationWindows, Head(out).id)
    /\ out' = Tail(out)
    /\ UNCHANGED <<engineVars, date, holidayVars, probe, toRenderer>>

\* win.once('ready-to-show'): the new window is shown
ReadyToShow ==
    \E id \in DOMAIN notificationWindows :
        /\ ~notificationWindows[id].ready
        /\ notificationWindows' =
              [notificationWindows EXCEPT ![id] = [visible |-> TRUE, ready |-> TRUE]]
        /\ UNCHANGED <<engineVars, date, holidayVars, probe, toRenderer, out>>

\* ids whose notification window is on the screen
VisibleWindows ==
    {id \in DOMAIN notificationWindows : notificationWindows[id].visible}

\* the notification window of id dismissed on its own surface:
\* handleWindowDismiss(id) hides it and sends 'notification-closed'
NotificationWindowDismiss ==
    \E id \in VisibleWindows :
        /\ notificationWindows' = HideWindow(notificationWindows, id)
        /\ toRenderer' = Append(toRenderer, id)
        /\ UNCHANGED <<engineVars, date, holidayVars, probe, out>>

\* the main process has handled what the renderer sent
MainHandled == out = <<>>

NextWindows ==
    \/ MainHandled /\ Pass
    \/ MainHandled /\ Tick
    \/ MainHandled /\ Deferred
    \/ MainHandled /\ ToggleTimer
    \/ MainHandled /\ DismissShown
    \/ MainHandled /\ HandleNotificationClosed
    \/ IpcMainTrigger
    \/ ~MainHandled /\ Head(out).channel = "dismiss-notification" /\ IpcMainDismiss
    \/ ReadyToShow
    \/ NotificationWindowDismiss

SpecWindows == InitIpc /\ [][NextWindows]_vars

\* no message is on its way and no window is still to be shown
Delivered ==
    /\ MainHandled
    /\ toRenderer = <<>>
    /\ \A id \in DOMAIN notificationWindows : notificationWindows[id].ready

\* ------------------------------------------------------------------------
\* Properties of the notification windows
\* ------------------------------------------------------------------------
\* C39: once every message has been delivered, the ids whose notification
\* window is on the screen are the ids in ActiveAlerts.
C39_WindowsAgreeWithAlerts ==
    Delivered => VisibleWindows = activeAlerts

\* once every message has been delivered, every id in ActiveAlerts has its
\* notification window on the screen
C39_AlertsHaveWindows ==
    Delivered => activeAlerts \subseteq VisibleWindows

\* a reminder has fired again while the 'notification-closed' of an earlier
\* dismissal was on its way: its window is on the screen and its id is not
\* in ActiveAlerts
C39_WindowWithoutAlert ==
    /\ Delivered
    /\ VisibleWindows \ activeAlerts # {}

\* ------------------------------------------------------------------------
\* Properties of pausing and resuming the main countdown
\* ------------------------------------------------------------------------
\* C40: with active-hours gating disabled, toggleTimer in status running
\* sets status paused and endTime null and leaves timeLeft as it is, a tick
\* in status paused leaves timeLeft as it is, and toggleTimer in status
\* paused sets status running with endTime = now + timeLeft * 1000, or with
\* a full countdown when timeLeft is 0.
C40_PauseResumeKeepsTimeLeft ==
    [][~settings.activeHoursEnabled =>
         /\ (ToggleTimer /\ status = "running") =>
                /\ status' = "paused"
                /\ endTime' = Null
                /\ timeLeft' = timeLeft
         /\ (Tick /\ status = "paused") => timeLeft' = timeLeft
         /\ (ToggleTimer /\ status = "paused") =>
                /\ status' = "running"
                /\ IF timeLeft > 0
                   THEN /\ endTime' = clock + timeLeft * MsPerSecond
                        /\ timeLeft' = timeLeft
                   ELSE /\ endTime' = clock + CalculateTotalSeconds(settings) * MsPerSecond
                        /\ timeLeft' = CalculateTotalSeconds(settings)]_vars

\* the countdown has been paused part of the way and what was left is
\* still there at the end of the run
C40_Witness ==
    /\ ~settings.activeHoursEnabled
    /\ status = "paused"
    /\ endTime = Null
    /\ timeLeft > 0
    /\ timeLeft < CalculateTotalSeconds(settings)
    /\ Ticked
    /\ clock = EndClock

====
